---------------------------- MODULE Spec2Model ----------------------------
(***************************************************************************)
(* Conversation store (core/state_manager.py) and channel orchestration    *)
(* (core/orchestrator.py) of the recruiter reply bot, with the part of the *)
(* interview controller (agents/interview_agent.py) the hand-off uses.     *)
(*                                                                         *)
(* Python values: a dict is a function from its keys; a key that is absent *)
(* from a message dict is written Missing; Python None is None.            *)
(***************************************************************************)
EXTENDS Integers, Sequences, FiniteSets, TLC

VARIABLES
    conversations,      \* table conversations: thread_id -> row, or NoRow
    messages,           \* table messages: the rows in insertion order
    interview_sessions, \* table interview_sessions: its rows, by id
    clock,              \* the value datetime.now() returns next
    mailbox,            \* the mail provider: item id -> item, or NotArrived
    auto_reply_enabled, \* orchestrator configuration flag
    require_approval,   \* orchestrator configuration flag
    pc,                 \* position of process_new_messages
    batch,              \* the list the running channel loop iterates over
    idx,                \* index in batch of the next item of the loop
    sent,               \* calls of the send transports, in order
    approvals,          \* data/pending_approvals.txt, one entry per record
    notified,           \* calls of _notify_escalation, in order
    agent,              \* the InterviewAgent object
    browsers,           \* browser sessions ever opened: id -> "open" | "closed"
    last                \* what the last operation was given and what it returned

vars == <<conversations, messages, interview_sessions, clock, mailbox,
          auto_reply_enabled, require_approval, pc, batch, idx,
          sent, approvals, notified, agent, browsers, last>>

storeVars == <<conversations, messages, interview_sessions, clock>>
orchVars == <<mailbox, auto_reply_enabled, require_approval, pc, batch, idx,
              sent, approvals, notified, agent, browsers>>

---------------------------------------------------------------------------
(* Bounds of the model *)

\* inbound items the channel loops handle in one behaviour
MaxHandled == 2
\* inbound items the mail provider delivers in one behaviour
MaxItems == 2
\* direct calls of the store's operations in one behaviour
MaxStoreOps == 3
\* direct calls of the interview-session operations in one behaviour
MaxSessionOps == 3
\* calls of the interview controller's operations in one behaviour
MaxInterviewOps == 3
\* words of a page's visible text
MaxWords == 2

---------------------------------------------------------------------------
(* Python values *)

Missing == "<missing>"
None == "<None>"
NoRow == [absent |-> TRUE]
NotArrived == [arrived |-> FALSE]

\* Python truthiness of a str-or-None value (an absent key reads as None)
Truthy(v) == v \notin {Missing, None, ""}

\* dict.get(key, default) on a dict whose absent keys are written Missing
Get(v, default) == IF v = Missing THEN default ELSE v

\* a datetime object, and the str its isoformat() gives
Datetime(n) == [kind |-> "datetime", at |-> n]
isoformat(d) == [kind |-> "str", at |-> d.at]
NoTimestamp == [kind |-> "missing", at |-> 0]

EmailThreads == {"t1", "t2"}
Phones == {"p1"}
SmsThreadId(phone) == "sms_" \o phone
ThreadIds == EmailThreads \cup {SmsThreadId(p) : p \in Phones}
Urls == {"u1", "u2"}

Stages == {"initial_contact", "information_gathering", "screening",
           "negotiation", "scheduling", "declined"}
ExtractedFields == {"company", "position", "recruiter_name", "salary_range",
                    "work_arrangement"}

\* message metadata: a dict of strings, or a dict holding a value the json
\* module cannot encode
PlainMeta == "{str: str}"
RawMeta == "{str: object}"

---------------------------------------------------------------------------
(* core/state_manager.py *)

\* json.dumps raises TypeError on a datetime and on any other object it has
\* no encoding for
JsonSerializable(message) ==
    /\ message.timestamp.kind # "datetime"
    /\ message.metadata # RawMeta

\* lines 147-148 and 211-212: a datetime timestamp is replaced, in the
\* caller's dict, by its isoformat() string
SerializableTimestamp(message) ==
    IF message.timestamp.kind = "datetime"
    THEN [message EXCEPT !.timestamp = isoformat(@)]
    ELSE message

EmptyMetadata == [interview_started |-> Missing, interview_url |-> Missing]

\* save_state with the commit left out: the row never reaches the table
save_state_uncommitted(table, state) == table

\* INSERT OR REPLACE INTO conversations: one row per thread_id
save_state(table, state) == [table EXCEPT ![state.thread_id] = state]

\* INSERT INTO messages, with the defaults of message.get
save_message(log, thread_id, message, now) ==
    Append(log, [thread_id |-> thread_id,
                 timestamp |-> IF message.timestamp.kind = "missing"
                               THEN isoformat(Datetime(now))
                               ELSE SerializableTimestamp(message).timestamp,
                 channel   |-> Get(message.channel, "unknown"),
                 direction |-> Get(message.direction, "incoming"),
                 content   |-> Get(message.content, ""),
                 metadata  |-> Get(message.metadata, "{}")])

\* _row_to_state: NULL text columns read back as ""
row_to_state(row) ==
    [row EXCEPT !.company        = IF @ = None THEN "" ELSE @,
                !.recruiter_name = IF @ = None THEN "" ELSE @,
                !.position       = IF @ = None THEN "" ELSE @]

get_state(table, thread_id) ==
    IF table[thread_id] = NoRow THEN NoRow ELSE row_to_state(table[thread_id])

\* A store call yields the tables it leaves, whether it raised, the state it
\* returns and the caller's message dict as the call leaves it.
StoreResult(table, log, raised, state, message) ==
    [conversations |-> table, messages |-> log, raised |-> raised,
     state |-> state, message |-> message, error |-> None]

\* a call that ends in an exception: error names the exception's class
Raised(table, log, message, error) ==
    [StoreResult(table, log, TRUE, NoRow, message) EXCEPT !.error = error]

\* what _save_state and _save_message raise: json.dumps fails on the message
\* before the statement is executed
SaveError(message) ==
    IF JsonSerializable(message) THEN "sqlite3.Error" ELSE "TypeError"

\* create_conversation whose statement is a plain INSERT: a thread_id that is
\* stored violates the primary key
create_conversation_insert_only(table, log, thread_id, channel, initial_message, now, fault) ==
    LET msg == SerializableTimestamp(initial_message)
        state == [thread_id |-> thread_id,
                  stage |-> "initial_contact",
                  channel |-> channel,
                  company |-> "",
                  recruiter_name |-> "",
                  position |-> "",
                  tech_stack |-> <<>>,
                  salary_range |-> None,
                  work_arrangement |-> None,
                  location |-> None,
                  created_at |-> now,
                  updated_at |-> now,
                  conversation_history |-> <<msg>>,
                  metadata |-> EmptyMetadata,
                  requires_escalation |-> FALSE,
                  escalation_reason |-> None]
    IN  IF fault = "save_state" \/ ~JsonSerializable(msg)
        THEN Raised(table, log, msg, SaveError(msg))
        ELSE IF table[thread_id] # NoRow
        THEN Raised(table, log, msg, "sqlite3.IntegrityError")
        ELSE IF fault = "save_message"
        THEN Raised(save_state(table, state), log, msg, "sqlite3.Error")
        ELSE StoreResult(save_state(table, state),
                         save_message(log, thread_id, msg, now),
                         FALSE, state, msg)

\* fault names the statement at which the database fails during the call:
\* "none", "save_state" or "save_message"
create_conversation(table, log, thread_id, channel, initial_message, now, fault) ==
    LET msg == SerializableTimestamp(initial_message)
        state == [thread_id |-> thread_id,
                  stage |-> "initial_contact",
                  channel |-> channel,
                  company |-> "",
                  recruiter_name |-> "",
                  position |-> "",
                  tech_stack |-> <<>>,
                  salary_range |-> None,
                  work_arrangement |-> None,
                  location |-> None,
                  created_at |-> now,
                  updated_at |-> now,
                  conversation_history |-> <<msg>>,
                  metadata |-> EmptyMetadata,
                  requires_escalation |-> FALSE,
                  escalation_reason |-> None]
    IN  IF fault = "save_state" \/ ~JsonSerializable(msg)
        THEN Raised(table, log, msg, SaveError(msg))
        ELSE IF fault = "save_message"
        THEN Raised(save_state(table, state), log, msg, "sqlite3.Error")
        ELSE StoreResult(save_state(table, state),
                         save_message(log, thread_id, msg, now),
                         FALSE, state, msg)

\* setattr for every key of updates that is an attribute of the state
ApplyUpdates(state, updates) ==
    [k \in DOMAIN state |-> IF k \in DOMAIN updates THEN updates[k] ELSE state[k]]

\* update_state that returns nothing for a thread it does not find
update_state_ignores_missing(table, log, thread_id, updates, now, fault) ==
    LET state == get_state(table, thread_id)
        new == [ApplyUpdates(state, updates) EXCEPT !.updated_at = now]
    IN  IF state = NoRow
        THEN StoreResult(table, log, FALSE, NoRow, NoRow)
        ELSE IF fault = "save_state"
        THEN Raised(table, log, NoRow, "sqlite3.Error")
        ELSE StoreResult(save_state(table, new), log, FALSE, new, NoRow)

update_state(table, log, thread_id, updates, now, fault) ==
    LET state == get_state(table, thread_id)
        new == [ApplyUpdates(state, updates) EXCEPT !.updated_at = now]
    IN  IF state = NoRow
        THEN Raised(table, log, NoRow, "ValueError")
        ELSE IF fault = "save_state"
        THEN Raised(table, log, NoRow, "sqlite3.Error")
        ELSE StoreResult(save_state(table, new), log, FALSE, new, NoRow)

\* add_message that puts the message at the head of the history
add_message_prepends(table, log, thread_id, message, now, fault) ==
    LET msg == SerializableTimestamp(message)
        state == get_state(table, thread_id)
        new == [state EXCEPT !.conversation_history = <<msg>> \o @,
                             !.updated_at = now]
    IN  IF state = NoRow \/ fault # "none" \/ ~JsonSerializable(msg)
        THEN Raised(table, log, msg, SaveError(msg))
        ELSE StoreResult(save_state(table, new),
                         save_message(log, thread_id, msg, now), FALSE, NoRow, msg)

add_message(table, log, thread_id, message, now, fault) ==
    LET msg == SerializableTimestamp(message)
        state == get_state(table, thread_id)
        new == [state EXCEPT !.conversation_history = Append(@, msg),
                             !.updated_at = now]
        saved == IF state = NoRow THEN table ELSE save_state(table, new)
    IN  IF state # NoRow /\ (fault = "save_state" \/ ~JsonSerializable(msg))
        THEN Raised(table, log, msg, SaveError(msg))
        ELSE IF fault = "save_message" \/ ~JsonSerializable(msg)
        THEN Raised(saved, log, msg, SaveError(msg))
        ELSE StoreResult(saved, save_message(log, thread_id, msg, now),
                         FALSE, NoRow, msg)

\* mark_for_escalation with the reason left out of the updates
mark_for_escalation_flag_only(table, log, thread_id, reason, now, fault) ==
    update_state(table, log, thread_id, [requires_escalation |-> TRUE], now, fault)

\* mark_for_escalation that keeps a reason already recorded
mark_for_escalation_first_reason_wins(table, log, thread_id, reason, now, fault) ==
    LET state == get_state(table, thread_id)
        kept == IF state # NoRow /\ Truthy(state.escalation_reason)
                THEN state.escalation_reason ELSE reason
    IN  update_state(table, log, thread_id,
                     [requires_escalation |-> TRUE, escalation_reason |-> kept],
                     now, fault)

mark_for_escalation(table, log, thread_id, reason, now, fault) ==
    update_state(table, log, thread_id,
                 [requires_escalation |-> TRUE, escalation_reason |-> reason],
                 now, fault)

\* the rows of ids as states, ORDER BY updated_at DESC
RECURSIVE order_by_updated_at_desc(_, _)
order_by_updated_at_desc(table, ids) ==
    IF ids = {} THEN <<>>
    ELSE LET first == CHOOSE t \in ids :
                          \A u \in ids : table[t].updated_at >= table[u].updated_at
         IN  <<row_to_state(table[first])>>
                 \o order_by_updated_at_desc(table, ids \ {first})

\* the rows of ids as states, ORDER BY updated_at (ascending)
RECURSIVE order_by_updated_at(_, _)
order_by_updated_at(table, ids) ==
    IF ids = {} THEN <<>>
    ELSE LET first == CHOOSE t \in ids :
                          \A u \in ids : table[t].updated_at <= table[u].updated_at
         IN  <<row_to_state(table[first])>>
                 \o order_by_updated_at(table, ids \ {first})

\* get_active_conversations with the DESC left out of the ORDER BY
get_active_conversations_ascending(table) ==
    order_by_updated_at(table, {t \in DOMAIN table :
                                   table[t] # NoRow /\ table[t].stage # "declined"})

\* SELECT * FROM conversations WHERE stage != 'declined' ORDER BY updated_at DESC
get_active_conversations(table) ==
    order_by_updated_at_desc(table, {t \in DOMAIN table :
                                        table[t] # NoRow /\ table[t].stage # "declined"})

---------------------------------------------------------------------------
(* The mail and SMS transports: agents/email_agent.py and                  *)
(* agents/sms_agent.py, as section 4.3 of the design describes them        *)

ProcessedLabel == "AI-Recruiter/Processed"
NoSms == [sms |-> FALSE]

\* the provider's unread items, oldest first
get_unread_recruiter_emails(box) ==
    LET Unread(i) == box[i] # NotArrived /\ box[i].unread
    IN  SelectSeq([i \in 1..Len(box) |-> i], Unread)

add_label(box, id, label) == [box EXCEPT ![id].labels = @ \cup {label}]

mark_as_read(box, id) == [box EXCEPT ![id].unread = FALSE]

\* an e-mail that came through the SMS gateway carries the sender's number
parse_incoming_sms(email) ==
    IF email.phone = None THEN NoSms
    ELSE [sms |-> TRUE, phone_number |-> email.phone, message |-> email.body]

handle_special_keywords(message) ==
    IF message = "STOP" THEN "unsubscribe" ELSE None

\* one call of send_reply or reply_to_sms; outcome is what the transport did
Transport(log, channel, email, thread_id, outcome) ==
    Append(log, [channel |-> channel, item |-> email.id, thread_id |-> thread_id,
                 outcome |-> outcome])

---------------------------------------------------------------------------
(* agents/interview_agent.py: the part the hand-off runs *)

\* a Python dict is a function from its keys; {} is the function of no key
EmptyDict == <<>>

\* d.get(k)
DictGet(d, k) == IF k \in DOMAIN d THEN d[k] ELSE None

\* d.update(e), as the dict it leaves
DictUpdate(d, e) ==
    [k \in DOMAIN d \cup DOMAIN e |-> IF k \in DOMAIN e THEN e[k] ELSE d[k]]

\* the row save_interview_state writes: the columns company and position are
\* state.get(...), the column state is json.dumps(state)
InterviewRow(interview_url, state) ==
    [url |-> interview_url, company |-> DictGet(state, "company"),
     position |-> DictGet(state, "position"), state |-> state]

\* INSERT OR REPLACE INTO interview_sessions, url UNIQUE: a row with the same
\* url is deleted and the new row takes the next id
save_interview_state(table, interview_url, state) ==
    LET Other(row) == row.url # interview_url
    IN  Append(SelectSeq(table, Other), InterviewRow(interview_url, state))

\* SELECT state FROM interview_sessions WHERE url = ?, fetchone; {} if none
get_interview_state(table, interview_url) ==
    LET Same(row) == row.url = interview_url
        rows == SelectSeq(table, Same)
    IN  IF rows = <<>> THEN EmptyDict ELSE rows[1].state

\* update_interview_state that writes the update alone
update_interview_state_overwrites(table, interview_url, update) ==
    save_interview_state(table, interview_url, update)

update_interview_state(table, interview_url, update) ==
    LET current == get_interview_state(table, interview_url)
    IN  save_interview_state(table, interview_url, DictUpdate(current, update))

\* browser is what the browser does: "ok", "no_browser" (launch fails) or
\* "no_page" (navigation fails); fault = "save_interview_state" makes the
\* store raise. Every exception is caught and reported as a failure.
start_interview(ag, sessions, opened, interview_url, company, position, now, browser, fault) ==
    LET started == [ag EXCEPT !.is_active = TRUE, !.page = Len(opened) + 1]
        running == [started EXCEPT
                      !.interview_state.current_step = "started",
                      !.interview_state.interview_url = interview_url,
                      !.interview_state.company = company,
                      !.interview_state.position = position,
                      !.interview_state.started_at = now]
    IN  IF browser = "no_browser"
        THEN [agent |-> ag, interview_sessions |-> sessions, browsers |-> opened,
              success |-> FALSE]
        ELSE IF browser = "no_page"
        THEN [agent |-> started, interview_sessions |-> sessions,
              browsers |-> Append(opened, "open"), success |-> FALSE]
        ELSE IF fault = "save_interview_state"
        THEN [agent |-> running, interview_sessions |-> sessions,
              browsers |-> Append(opened, "open"), success |-> FALSE]
        ELSE [agent |-> running,
              interview_sessions |->
                  save_interview_state(sessions, interview_url, running.interview_state),
              browsers |-> Append(opened, "open"), success |-> TRUE]

---------------------------------------------------------------------------
(* core/orchestrator.py *)

\* everything a channel loop reads and writes
World ==
    [conversations |-> conversations, messages |-> messages,
     interview_sessions |-> interview_sessions, mailbox |-> mailbox,
     sent |-> sent, approvals |-> approvals, notified |-> notified,
     agent |-> agent, browsers |-> browsers]

\* the texts of inbound items: plain text, the stop keyword, and texts that
\* carry an interview link
Bodies == {"hello", "STOP", "see https://u1/interview"}

\* _extract_interview_url on the texts of Bodies
extract_interview_url(text) ==
    IF text = "see https://u1/interview" THEN "u1" ELSE None

\* merge_updates without the emptiness tests: every returned field is copied
merge_updates_overwrite(state, response_data) ==
    LET extracted_info == response_data.extracted_info
        given == {f \in ExtractedFields : extracted_info[f] # Missing}
    IN  [k \in {"stage"} \cup given |->
            IF k = "stage" THEN Get(response_data.next_stage, state.stage)
            ELSE extracted_info[k]]

\* lines 144-159: the stage, and each extracted field the generator gave a
\* non-empty value for
merge_updates(state, response_data) ==
    LET extracted_info == response_data.extracted_info
        given == {f \in ExtractedFields : Truthy(extracted_info[f])}
    IN  [k \in {"stage"} \cup given |->
            IF k = "stage" THEN Get(response_data.next_stage, state.stage)
            ELSE extracted_info[k]]

\* email_route with the escalation test moved before the interview link
email_route_escalation_first(interview_url, response_data, auto_reply, approval) ==
    IF response_data.requires_escalation THEN "escalate"
    ELSE IF interview_url # None THEN "interview"
    ELSE IF auto_reply /\ approval THEN "approve"
    ELSE IF auto_reply THEN "send"
    ELSE "none"

\* email_route with the require_approval test left out
email_route_approval_ignored(interview_url, response_data, auto_reply, approval) ==
    IF interview_url # None THEN "interview"
    ELSE IF response_data.requires_escalation THEN "escalate"
    ELSE IF auto_reply THEN "send"
    ELSE "none"

\* lines 163-193: which of the handler's branches an e-mail takes
email_route(interview_url, response_data, auto_reply, approval) ==
    IF interview_url # None THEN "interview"
    ELSE IF response_data.requires_escalation THEN "escalate"
    ELSE IF auto_reply /\ approval THEN "approve"
    ELSE IF auto_reply THEN "send"
    ELSE "none"

\* line 267: whether an SMS is answered
sms_route(response_data, auto_reply) ==
    IF auto_reply /\ ~response_data.requires_escalation THEN "send" ELSE "none"

\* on_exception without the except clause: the exception leaves the loop
on_exception_propagates(loop) == "aborted"

\* the except clauses of the two loops (lines 201-204, 281-282): the loop
\* goes on with the next item
on_exception(loop) == loop

NoResponse == [response |-> None]

\* llm_processor.generate_response was called and raised
GeneratorRaised == [response |-> None, raised |-> TRUE]

\* what handling one item left behind: the world, the branch taken ("error"
\* when an exception ended the handling), the thread it worked on and the
\* generator's result, if the handling got as far as asking for it
Handled(w, route, thread_id, response_data) ==
    [world |-> w, route |-> route, raised |-> route = "error",
     thread_id |-> thread_id, response |-> response_data]

IncomingMessage(channel, content, now) ==
    [timestamp |-> Datetime(now), channel |-> channel, direction |-> "incoming",
     content |-> content, metadata |-> PlainMeta]

OutgoingMessage(channel, content, now) ==
    [timestamp |-> Datetime(now), channel |-> channel, direction |-> "outgoing",
     content |-> content, metadata |-> Missing]

\* resolve_state that creates the conversation anew for every item
resolve_state_always_creates(w, thread_id, channel, content, now, fault) ==
    create_conversation(w.conversations, w.messages, thread_id, channel,
                        IncomingMessage(channel, content, now), now, fault)

\* lines 106-134 and 235-256: create the conversation or append to it; gives
\* the store call's result, with the state object the handler goes on with
resolve_state(w, thread_id, channel, content, now, fault) ==
    LET state == get_state(w.conversations, thread_id)
        message == IncomingMessage(channel, content, now)
        r == IF state = NoRow
             THEN create_conversation(w.conversations, w.messages, thread_id,
                                      channel, message, now, fault)
             ELSE add_message(w.conversations, w.messages, thread_id, message,
                              now, fault)
    IN  [r EXCEPT !.state = IF state = NoRow THEN r.state ELSE state]

\* _send_email_response: its own try/except swallows every exception
send_email_response(w, thread_id, response_data, email, now, env) ==
    LET called == [w EXCEPT !.sent = Transport(@, "email", email, thread_id, env.transport)]
        r == add_message(called.conversations, called.messages, thread_id,
                         OutgoingMessage("email", response_data.response, now), now,
                         IF env.fault = "save_outgoing" THEN "save_state" ELSE "none")
    IN  IF env.transport = "ok"
        THEN [called EXCEPT !.conversations = r.conversations, !.messages = r.messages]
        ELSE called

\* _request_approval: one record appended to the pending-approval file
request_approval(w, thread_id, response_data, email) ==
    [w EXCEPT !.approvals = Append(@, [thread_id |-> thread_id, item |-> email.id,
                                       response |-> response_data.response])]

notify_escalation(w, thread_id, response_data) ==
    [w EXCEPT !.notified = Append(@, [thread_id |-> thread_id,
                                      reason |-> Get(response_data.escalation_reason, "Unknown")])]

\* _handle_interview_link: start the session, then record it on the thread
\* whatever start_interview returned; its try/except swallows every exception
handle_interview_link(w, interview_url, thread_id, company, position, now, env) ==
    LET r == start_interview(w.agent, w.interview_sessions, w.browsers, interview_url,
                             company, position, now, env.browser, env.fault)
        w1 == [w EXCEPT !.agent = r.agent, !.interview_sessions = r.interview_sessions,
                        !.browsers = r.browsers]
        state == get_state(w1.conversations, thread_id)
        u == update_state(w1.conversations, w1.messages, thread_id,
                 [stage |-> "scheduling",
                  interview_url |-> interview_url,
                  metadata |-> [state.metadata EXCEPT !.interview_started = "True",
                                                      !.interview_url = interview_url]],
                 now, IF env.fault = "save_link" THEN "save_state" ELSE "none")
    IN  IF state = NoRow \/ u.raised THEN w1
        ELSE [w1 EXCEPT !.conversations = u.conversations]

\* the body of the loop of _process_emails for one e-mail (lines 97-204).
\* env.fault names the statement that raises, if any.
process_email(w, email, response_data, now, env, auto_reply, approval) ==
    LET thread_id == email.thread_id
        labeled == [w EXCEPT !.mailbox = add_label(@, email.id, ProcessedLabel)]
        r == resolve_state(labeled, thread_id, "email", email.body, now, env.fault)
        stored == [labeled EXCEPT !.conversations = r.conversations,
                                  !.messages = r.messages]
        extracted_info == response_data.extracted_info
        u == update_state(stored.conversations, stored.messages, thread_id,
                          merge_updates(r.state, response_data), now,
                          IF env.fault = "update_state" THEN "save_state" ELSE "none")
        merged == [stored EXCEPT !.conversations = u.conversations]
        interview_url == extract_interview_url(email.body)
        route == email_route(interview_url, response_data, auto_reply, approval)
        e == mark_for_escalation(merged.conversations, merged.messages, thread_id,
                                 Get(response_data.escalation_reason, "Unknown reason"),
                                 now,
                                 IF env.fault = "mark_for_escalation"
                                 THEN "save_state" ELSE "none")
        escalated == notify_escalation([merged EXCEPT !.conversations = e.conversations],
                                       thread_id, response_data)
        replied == CASE route = "approve" ->
                          request_approval(merged, thread_id, response_data, email)
                     [] route = "send" ->
                          send_email_response(merged, thread_id, response_data, email,
                                              now, env)
                     [] OTHER -> merged
        done == [replied EXCEPT !.mailbox = mark_as_read(@, email.id)]
    IN  IF env.fault = "add_label" THEN Handled(w, "error", thread_id, NoResponse)
        ELSE IF env.fault = "get_state"
        THEN Handled(labeled, "error", thread_id, NoResponse)
        ELSE IF r.raised THEN Handled(stored, "error", thread_id, NoResponse)
        ELSE IF env.fault = "generate_response"
        THEN Handled(stored, "error", thread_id, GeneratorRaised)
        ELSE IF u.raised THEN Handled(stored, "error", thread_id, response_data)
        ELSE IF route = "interview"
        THEN Handled(handle_interview_link(merged, interview_url, thread_id,
                         Get(extracted_info.company, None),
                         Get(extracted_info.position, None), now, env),
                     route, thread_id, response_data)
        ELSE IF route = "escalate"
        THEN IF e.raised THEN Handled(merged, "error", thread_id, response_data)
             ELSE Handled(escalated, route, thread_id, response_data)
        ELSE IF route = "approve" /\ env.fault = "request_approval"
        THEN Handled(merged, "error", thread_id, response_data)
        ELSE IF env.fault = "mark_as_read"
        THEN Handled(replied, "error", thread_id, response_data)
        ELSE Handled(done, route, thread_id, response_data)

\* the stop branch answering the sender before it goes on
unsubscribe_confirms(w, email, thread_id) ==
    Handled([w EXCEPT !.sent = Transport(@, "sms", email, thread_id, "ok")],
            "unsubscribe", thread_id, NoResponse)

\* lines 227-231: the stop keyword is printed and the loop goes on with the
\* next item
unsubscribe(w, email, thread_id) ==
    Handled(w, "unsubscribe", thread_id, NoResponse)

\* the body of the loop of _process_sms for one e-mail (lines 217-282)
process_sms(w, email, response_data, now, env, auto_reply) ==
    LET sms_data == parse_incoming_sms(email)
        thread_id == SmsThreadId(sms_data.phone_number)
        r == resolve_state(w, thread_id, "sms", sms_data.message, now, env.fault)
        stored == [w EXCEPT !.conversations = r.conversations, !.messages = r.messages]
        route == sms_route(response_data, auto_reply)
        called == [stored EXCEPT
                     !.sent = Transport(@, "sms", email, thread_id, env.transport)]
        o == add_message(called.conversations, called.messages, thread_id,
                         OutgoingMessage("sms", response_data.response, now), now,
                         IF env.fault = "save_outgoing" THEN "save_state" ELSE "none")
        logged == [called EXCEPT !.conversations = o.conversations,
                                 !.messages = o.messages]
        replied == IF route # "send" THEN stored
                   ELSE IF env.transport = "ok" THEN logged ELSE called
        done == [replied EXCEPT !.mailbox = mark_as_read(@, email.id)]
    IN  IF sms_data = NoSms THEN Handled(w, "not_sms", None, NoResponse)
        ELSE IF handle_special_keywords(sms_data.message) = "unsubscribe"
        THEN unsubscribe(w, email, thread_id)
        ELSE IF env.fault = "get_state" THEN Handled(w, "error", thread_id, NoResponse)
        ELSE IF r.raised THEN Handled(stored, "error", thread_id, NoResponse)
        ELSE IF env.fault = "generate_response"
        THEN Handled(stored, "error", thread_id, GeneratorRaised)
        ELSE IF route = "send" /\ env.transport = "raised"
        THEN Handled(called, "error", thread_id, response_data)
        ELSE IF route = "send" /\ env.transport = "ok" /\ o.raised
        THEN Handled(logged, "error", thread_id, response_data)
        ELSE IF env.fault = "mark_as_read"
        THEN Handled(replied, "error", thread_id, response_data)
        ELSE Handled(done, route, thread_id, response_data)

---------------------------------------------------------------------------
(* Initial state: empty tables, an empty mailbox, a fresh InterviewAgent *)

NoCall == [op |-> "none"]

\* InterviewAgent.__init__, lines 36-51
NewAgent ==
    [is_active |-> FALSE,
     page |-> 0,
     interview_state |-> [current_step |-> None,
                          interview_url |-> None,
                          company |-> None,
                          position |-> None,
                          questions_answered |-> <<>>,
                          code_snippets_analyzed |-> <<>>,
                          started_at |-> None]]

Init ==
    /\ conversations = [t \in ThreadIds |-> NoRow]
    /\ messages = <<>>
    /\ interview_sessions = <<>>
    /\ clock = 1
    /\ mailbox = [i \in 1..MaxItems |-> NotArrived]
    /\ auto_reply_enabled \in BOOLEAN
    /\ require_approval \in BOOLEAN
    /\ pc = "idle"
    /\ batch = <<>>
    /\ idx = 1
    /\ sent = <<>>
    /\ approvals = <<>>
    /\ notified = <<>>
    /\ agent = NewAgent
    /\ browsers = <<>>
    /\ last = NoCall

---------------------------------------------------------------------------
(* The store's operations called directly *)

StoreFaults == {"none", "save_state", "save_message"}

\* message dicts a caller passes at time now
MessageInputs(now) ==
    {[timestamp |-> ts, channel |-> "email", direction |-> "incoming",
      content |-> "hello", metadata |-> md] :
        ts \in {Datetime(now), isoformat(Datetime(now)), NoTimestamp},
        md \in {PlainMeta, RawMeta}}
    \cup {[timestamp |-> Datetime(now), channel |-> Missing, direction |-> "outgoing",
           content |-> "reply", metadata |-> Missing]}

\* updates dicts a caller passes
UpdateInputs ==
    {[stage |-> "screening"],
     [stage |-> "declined"],
     [company |-> "Acme", salary_range |-> "100k"],
     [company |-> None],
     [interview_url |-> "u1"]}

StoreCall(op, thread_id, arg, fault, r) ==
    /\ conversations' = r.conversations
    /\ messages' = r.messages
    /\ clock' = clock + 1
    /\ last' = [op |-> op, thread_id |-> thread_id, arg |-> arg,
                existed |-> conversations[thread_id] # NoRow,
                before |-> conversations, logged |-> messages,
                raised |-> r.raised, error |-> r.error,
                state |-> r.state, message |-> r.message]
    /\ UNCHANGED <<interview_sessions, orchVars>>

CreateConversation(t, m, fault) ==
    /\ clock <= MaxStoreOps
    /\ StoreCall("create_conversation", t, m, fault,
                 create_conversation(conversations, messages, t, "email", m, clock, fault))

UpdateState(t, u, fault) ==
    /\ clock <= MaxStoreOps
    /\ StoreCall("update_state", t, u, fault,
                 update_state(conversations, messages, t, u, clock, fault))

AddMessage(t, m, fault) ==
    /\ clock <= MaxStoreOps
    /\ StoreCall("add_message", t, m, fault,
                 add_message(conversations, messages, t, m, clock, fault))

MarkForEscalation(t, reason, fault) ==
    /\ clock <= MaxStoreOps
    /\ StoreCall("mark_for_escalation", t, reason, fault,
                 mark_for_escalation(conversations, messages, t, reason, clock, fault))

\* a read: the tables stay as they are
GetActiveConversations ==
    /\ last' = [op |-> "get_active_conversations",
                result |-> get_active_conversations(conversations)]
    /\ UNCHANGED <<storeVars, orchVars>>

NextStore ==
    \/ GetActiveConversations
    \/ \E t \in EmailThreads, m \in MessageInputs(clock), f \in StoreFaults :
          CreateConversation(t, m, f)
    \/ \E t \in EmailThreads, u \in UpdateInputs, f \in StoreFaults \ {"save_message"} :
          UpdateState(t, u, f)
    \/ \E t \in EmailThreads, m \in MessageInputs(clock), f \in StoreFaults :
          AddMessage(t, m, f)
    \/ \E t \in EmailThreads, r \in {"salary", "visa"}, f \in StoreFaults \ {"save_message"} :
          MarkForEscalation(t, r, f)

\* the store alone: the orchestrator's configuration plays no part
InitStore == Init /\ auto_reply_enabled /\ ~require_approval

SpecStore == InitStore /\ [][NextStore]_vars

---------------------------------------------------------------------------
(* The interview-session operations of the store called directly *)

\* state dicts a caller saves
SessionStates(interview_url, now) ==
    {[current_step |-> "started", interview_url |-> interview_url,
      company |-> "Acme", position |-> None, questions_answered |-> <<>>,
      code_snippets_analyzed |-> <<>>, started_at |-> now],
     [company |-> "Beta"]}

\* update dicts a caller passes
SessionUpdates(now) ==
    {[questions_answered |-> <<[question |-> "q", timestamp |-> now]>>],
     [current_step |-> "question", company |-> "Gamma"],
     [note |-> "seen"]}

\* fault = "execute" makes the INSERT raise: nothing is written
SessionCall(op, interview_url, arg, fault, table) ==
    /\ interview_sessions' = IF fault = "none" THEN table ELSE interview_sessions
    /\ clock' = clock + 1
    /\ last' = [op |-> op, url |-> interview_url, arg |-> arg,
                raised |-> fault # "none", before |-> interview_sessions]
    /\ UNCHANGED <<conversations, messages, orchVars>>

SaveInterviewState(interview_url, state, fault) ==
    /\ clock <= MaxSessionOps
    /\ SessionCall("save_interview_state", interview_url, state, fault,
                   save_interview_state(interview_sessions, interview_url, state))

UpdateInterviewState(interview_url, update, fault) ==
    /\ clock <= MaxSessionOps
    /\ SessionCall("update_interview_state", interview_url, update, fault,
                   update_interview_state(interview_sessions, interview_url, update))

NextSessions ==
    \/ \E u \in Urls, f \in {"none", "execute"} :
          \E state \in SessionStates(u, clock) : SaveInterviewState(u, state, f)
    \/ \E u \in Urls, update \in SessionUpdates(clock), f \in {"none", "execute"} :
          UpdateInterviewState(u, update, f)

SpecSessions == InitStore /\ [][NextSessions]_vars

---------------------------------------------------------------------------
(* agents/interview_agent.py: the controller's operations called directly, *)
(* on a controller built with a store and a language-model processor       *)

\* what a call of analyze_code_snippet or answer_question leaves and how it
\* ends: a success payload, a failure payload, or an exception
AgentResult(ag, sessions, success, raised) ==
    [agent |-> ag, interview_sessions |-> sessions, success |-> success,
     raised |-> raised]

\* lines 139-143 and 195-199: the log is written through to the row of the
\* session's url. A url of None violates NOT NULL; fault =
\* "update_interview_state" makes the database raise. Neither is caught.
write_through(ag, sessions, key, fault) ==
    LET interview_url == ag.interview_state.interview_url
        update == [k \in {key} |-> ag.interview_state[key]]
    IN  IF interview_url = None \/ fault = "update_interview_state"
        THEN AgentResult(ag, sessions, FALSE, TRUE)
        ELSE AgentResult(ag, update_interview_state(sessions, interview_url, update),
                         TRUE, FALSE)

analyze_code_snippet_logs_anyway(ag, sessions, code, found, now, fault) ==
    write_through([ag EXCEPT !.interview_state.code_snippets_analyzed =
                                 Append(@, [code_preview |-> found, timestamp |-> now])],
                  sessions, "code_snippets_analyzed", fault)

\* code is the argument (None when left out), found what
\* _extract_code_from_page gives for the page (None when it finds nothing)
analyze_code_snippet(ag, sessions, code, found, now, fault) ==
    LET text == IF Truthy(code) THEN code ELSE found
        entry == [code_preview |-> text, timestamp |-> now]
        appended == [ag EXCEPT
                       !.interview_state.code_snippets_analyzed = Append(@, entry)]
    IN  IF ~Truthy(text)
        THEN AgentResult(ag, sessions, FALSE, FALSE)
        ELSE write_through(appended, sessions, "code_snippets_analyzed", fault)

\* llm is what the processor does: "ok", or "raises" (the canned answer of
\* line 183); "none" is a controller built without a processor (line 185)
answer_question(ag, sessions, question, found, llm, now, fault) ==
    LET text == IF Truthy(question) THEN question ELSE found
        answer == IF llm = "ok" THEN "generated"
                  ELSE IF llm = "raises" THEN "canned: analyzing the requirements"
                  ELSE "canned: systematically"
        entry == [question |-> text, answer |-> answer, timestamp |-> now]
        appended == [ag EXCEPT
                       !.interview_state.questions_answered = Append(@, entry)]
    IN  IF ~Truthy(text)
        THEN AgentResult(ag, sessions, FALSE, FALSE)
        ELSE write_through(appended, sessions, "questions_answered", fault)

\* _close_browser: teardown = "raises" when closing the context, the
\* browser or playwright raises, which is logged; is_active is cleared
\* only after all three. Nothing is closed when nothing was started.
close_browser(ag, opened, teardown) ==
    IF ag.page = 0 \/ teardown = "ok"
    THEN [agent |-> [ag EXCEPT !.is_active = FALSE],
          browsers |-> IF ag.page = 0 THEN opened
                       ELSE [opened EXCEPT ![ag.page] = "closed"]]
    ELSE [agent |-> ag, browsers |-> opened]

close_interview(ag, opened, teardown) ==
    LET c == close_browser(ag, opened, teardown)
    IN  [agent |-> [c.agent EXCEPT !.interview_state = NewAgent.interview_state],
         browsers |-> c.browsers]

\* the argument given or left out, and what the page holds
\* get_interview_status: the fields the claims read
get_interview_status(ag) ==
    [active |-> ag.is_active,
     current_step |-> ag.interview_state.current_step,
     questions_answered |-> Len(ag.interview_state.questions_answered),
     code_snippets_analyzed |-> Len(ag.interview_state.code_snippets_analyzed),
     started_at |-> ag.interview_state.started_at]

TextInputs(active) ==
    {<<"given", None>>, <<None, None>>}
        \cup (IF active THEN {<<None, "on page">>} ELSE {})

AgentCall(op, arg, ag, sessions, opened, success, raised) ==
    /\ agent' = ag
    /\ interview_sessions' = sessions
    /\ browsers' = opened
    /\ clock' = clock + 1
    /\ last' = [op |-> op, arg |-> arg, success |-> success, raised |-> raised,
                agent |-> agent, before |-> interview_sessions, opened |-> browsers]
    /\ UNCHANGED <<conversations, messages, mailbox, auto_reply_enabled,
                   require_approval, pc, batch, idx, sent, approvals, notified>>

StartInterview(interview_url, company, browser, fault) ==
    /\ clock <= MaxInterviewOps
    /\ LET r == start_interview(agent, interview_sessions, browsers, interview_url,
                                company, None, clock, browser, fault)
       IN  AgentCall("start_interview",
                     [interview_url |-> interview_url, browser |-> browser,
                      fault |-> fault],
                     r.agent, r.interview_sessions, r.browsers, r.success, FALSE)

AnalyzeCodeSnippet(code, found, fault) ==
    /\ clock <= MaxInterviewOps
    /\ LET r == analyze_code_snippet(agent, interview_sessions, code, found, clock, fault)
       IN  AgentCall("analyze_code_snippet", [given |-> code, found |-> found],
                     r.agent, r.interview_sessions, browsers, r.success, r.raised)

AnswerQuestion(question, found, llm, fault) ==
    /\ clock <= MaxInterviewOps
    /\ LET r == answer_question(agent, interview_sessions, question, found, llm,
                                clock, fault)
       IN  AgentCall("answer_question",
                     [given |-> question, found |-> found, llm |-> llm],
                     r.agent, r.interview_sessions, browsers, r.success, r.raised)

CloseInterview(teardown) ==
    /\ clock <= MaxInterviewOps
    /\ LET r == close_interview(agent, browsers, teardown)
       IN  AgentCall("close_interview", teardown, r.agent, interview_sessions,
                     r.browsers, TRUE, FALSE)

NextInterview ==
    \/ \E u \in Urls, company \in {None, "Acme"},
          browser \in {"ok", "no_browser", "no_page"},
          f \in {"none", "save_interview_state"} :
          StartInterview(u, company, browser, f)
    \/ \E t \in TextInputs(agent.is_active), f \in {"none", "update_interview_state"} :
          AnalyzeCodeSnippet(t[1], t[2], f)
    \/ \E t \in TextInputs(agent.is_active), llm \in {"ok", "raises", "none"},
          f \in {"none", "update_interview_state"} :
          AnswerQuestion(t[1], t[2], llm, f)
    \/ \E teardown \in {"ok", "raises"} : CloseInterview(teardown)

SpecInterview == InitStore /\ [][NextInterview]_vars

---------------------------------------------------------------------------
(* agents/interview_agent.py: interact_with_page. The page answers in one  *)
(* of three ways: "responsive" (the element or input is there and the      *)
(* click, fill or wait goes through), "missing" (nothing matches), "stuck" *)
(* (the element or input is there, the browser call on it raises)          *)

PageKinds == {"responsive", "missing", "stuck"}

\* the payload returned, and the browser calls page.click / page.fill made
PageResult(success, error, calls) ==
    [success |-> success, error |-> error, calls |-> calls]

\* _find_element_by_text, _click_element, _fill_input, _wait_for_text and
\* _get_page_content all answer None, False or an error dict without
\* touching the browser unless is_active and a page is held
Live(ag) == ag.is_active /\ ag.page # 0

interact_with_page_unguarded(ag, action, target, value, page) ==
    IF action \in {"click", "fill"} /\ Live(ag) /\ page # "missing"
    THEN PageResult(page = "responsive", None, <<action>>)
    ELSE PageResult(FALSE, "Could not find", <<>>)

interact_with_page(ag, action, target, value, page) ==
    IF action = "click"
    THEN IF ~Truthy(target)
         THEN PageResult(FALSE, "Target required for click action", <<>>)
         ELSE IF Live(ag) /\ page # "missing"
              THEN IF page = "responsive"
                   THEN PageResult(TRUE, None, <<"click">>)
                   ELSE PageResult(FALSE, "Could not find element", <<"click">>)
              ELSE PageResult(FALSE, "Could not find element", <<>>)
    ELSE IF action = "fill"
    THEN IF ~Truthy(target) \/ ~Truthy(value)
         THEN PageResult(FALSE, "Target and value required for fill action", <<>>)
         ELSE IF Live(ag) /\ page # "missing"
              THEN IF page = "responsive"
                   THEN PageResult(TRUE, None, <<"fill">>)
                   ELSE PageResult(FALSE, "Could not find input field", <<"fill">>)
              ELSE PageResult(FALSE, "Could not find input field", <<>>)
    ELSE IF action = "wait"
    THEN IF Truthy(target)
         THEN PageResult(Live(ag) /\ page = "responsive", None, <<>>)
         ELSE PageResult(TRUE, None, <<>>)
    ELSE PageResult(FALSE, "Unknown action", <<>>)

ActionNames == {"click", "fill", "wait", "hover"}

InteractWithPage(action, target, value, page) ==
    /\ clock <= MaxInterviewOps
    /\ LET r == interact_with_page(agent, action, target, value, page)
       IN  /\ last' = [op |-> "interact_with_page", action |-> action,
                       target |-> target, value |-> value, success |-> r.success,
                       error |-> r.error, calls |-> r.calls, raised |-> FALSE,
                       agent |-> agent]
           /\ clock' = clock + 1
           /\ UNCHANGED <<conversations, messages, interview_sessions, mailbox,
                          auto_reply_enabled, require_approval, pc, batch, idx,
                          sent, approvals, notified, agent, browsers>>

NextInteract ==
    \/ \E u \in Urls, browser \in {"ok", "no_browser"} :
          StartInterview(u, None, browser, "none")
    \/ \E action \in ActionNames, target \in {None, "", "Next"},
          value \in {None, "", "Ada"}, page \in PageKinds :
          InteractWithPage(action, target, value, page)
    \/ CloseInterview("ok")

SpecInteract == InitStore /\ [][NextInteract]_vars

---------------------------------------------------------------------------
(* Python str values whose characters matter: a str is the sequence of     *)
(* its characters                                                          *)

Upper == <<"A", "B", "C", "D", "E", "F", "G", "H", "I", "J", "K", "L", "M",
           "N", "O", "P", "Q", "R", "S", "T", "U", "V", "W", "X", "Y", "Z">>
Lower == <<"a", "b", "c", "d", "e", "f", "g", "h", "i", "j", "k", "l", "m",
           "n", "o", "p", "q", "r", "s", "t", "u", "v", "w", "x", "y", "z">>

\* str.lower()
lower(str) ==
    [i \in 1..Len(str) |->
        IF \E j \in 1..26 : Upper[j] = str[i]
        THEN Lower[CHOOSE j \in 1..26 : Upper[j] = str[i]]
        ELSE str[i]]

\* word in str
In(word, str) ==
    \E i \in 0..(Len(str) - Len(word)) : SubSeq(str, i + 1, i + Len(word)) = word

\* " ".join(words)
RECURSIVE Join(_)
Join(words) ==
    IF words = <<>> THEN <<>>
    ELSE IF Len(words) = 1 THEN words[1]
    ELSE words[1] \o <<" ">> \o Join(Tail(words))

\* the sequences over S of length at most n
Seqs(S, n) == UNION {[1..k -> S] : k \in 0..n}

---------------------------------------------------------------------------
(* agents/interview_agent.py: next-action planning *)

CodeWords == {<<"c", "o", "d", "e">>,
              <<"s", "n", "i", "p", "p", "e", "t">>,
              <<"f", "u", "n", "c", "t", "i", "o", "n">>,
              <<"c", "l", "a", "s", "s">>}
QuestionWords == {<<"q", "u", "e", "s", "t", "i", "o", "n">>,
                  <<"a", "n", "s", "w", "e", "r">>,
                  <<"w", "h", "a", "t">>, <<"h", "o", "w">>, <<"w", "h", "y">>}
StartWord == <<"s", "t", "a", "r", "t">>
NextWord == <<"n", "e", "x", "t">>

\* page_content.get("text_content", "") and .get("buttons", []) of a page,
\* and of the error dict _get_page_content gives without a browser
ErrorPage == [error |-> "Browser not started"]
TextContent(page_content) ==
    IF "text_content" \in DOMAIN page_content THEN page_content.text_content ELSE <<>>
Buttons(page_content) ==
    IF "buttons" \in DOMAIN page_content THEN page_content.buttons ELSE <<>>

\* the four tests of _analyze_page_and_plan, each on the lowered text
HasCode(page_content) ==
    \E word \in CodeWords : In(word, lower(TextContent(page_content)))
HasQuestion(page_content) ==
    \E word \in QuestionWords : In(word, lower(TextContent(page_content)))
HasAffordance(page_content, word) ==
    \/ In(word, lower(TextContent(page_content)))
    \/ \E i \in 1..Len(Buttons(page_content)) :
          In(word, lower(Buttons(page_content)[i]))

\* _analyze_page_and_plan with the question test before the code test
analyze_page_and_plan_question_first(page_content) ==
    IF HasQuestion(page_content) THEN [action |-> "answer_question"]
    ELSE IF HasCode(page_content) THEN [action |-> "analyze_code"]
    ELSE IF HasAffordance(page_content, StartWord)
    THEN [action |-> "click", target |-> "start"]
    ELSE IF HasAffordance(page_content, NextWord)
    THEN [action |-> "click", target |-> "next"]
    ELSE [action |-> "analyze"]

\* _analyze_page_and_plan that looks for start and next in the text alone
analyze_page_and_plan_ignores_buttons(page_content) ==
    IF HasCode(page_content) THEN [action |-> "analyze_code"]
    ELSE IF HasQuestion(page_content) THEN [action |-> "answer_question"]
    ELSE IF In(StartWord, lower(TextContent(page_content)))
    THEN [action |-> "click", target |-> "start"]
    ELSE IF In(NextWord, lower(TextContent(page_content)))
    THEN [action |-> "click", target |-> "next"]
    ELSE [action |-> "analyze"]

\* the dict returned, without its reasoning text
analyze_page_and_plan(page_content) ==
    IF HasCode(page_content) THEN [action |-> "analyze_code"]
    ELSE IF HasQuestion(page_content) THEN [action |-> "answer_question"]
    ELSE IF HasAffordance(page_content, StartWord)
    THEN [action |-> "click", target |-> "start"]
    ELSE IF HasAffordance(page_content, NextWord)
    THEN [action |-> "click", target |-> "next"]
    ELSE [action |-> "analyze"]

\* words a page shows, button labels, and the pages made of them
PageWords == {<<"f", "u", "n", "c", "t", "i", "o", "n">>,
              <<"W", "h", "a", "t">>,
              <<"s", "h", "o", "w">>,
              <<"R", "e", "s", "t", "a", "r", "t">>,
              <<"n", "e", "x", "t">>,
              <<"h", "e", "l", "l", "o">>}
ButtonLabels == {<<"N", "e", "x", "t">>, <<"S", "t", "a", "r", "t">>, <<"S", "u", "b", "m", "i", "t">>}
ButtonLists ==
    {buttons \in Seqs(ButtonLabels, 2) : Len(buttons) = 2 => buttons[1] # buttons[2]}
Pages ==
    {ErrorPage} \cup
    {[text_content |-> Join(words), buttons |-> buttons] :
        words \in Seqs(PageWords, MaxWords), buttons \in ButtonLists}

\* a page is given, then planned for
PlanVars == <<conversations, messages, interview_sessions, clock, orchVars>>

GivePage(page_content) ==
    /\ last = NoCall
    /\ last' = [op |-> "page", page_content |-> page_content]
    /\ UNCHANGED PlanVars

AnalyzePageAndPlan ==
    /\ last.op = "page"
    /\ last' = [op |-> "analyze_page_and_plan", page_content |-> last.page_content,
                next_action |-> analyze_page_and_plan(last.page_content)]
    /\ UNCHANGED PlanVars

NextPlan ==
    \/ \E page_content \in Pages : GivePage(page_content)
    \/ AnalyzePageAndPlan

SpecPlan == InitStore /\ [][NextPlan]_vars

---------------------------------------------------------------------------
(* core/orchestrator.py: _extract_interview_url on texts given character   *)
(* by character (the poll cycle above uses its values on Bodies)           *)

MaxSegments == 2

Min(S) == CHOOSE x \in S : \A y \in S : x <= y
Max(S) == CHOOSE x \in S : \A y \in S : y <= x

\* \s, and the characters the patterns' classes exclude
Whitespace == {" ", "\t", "\n"}
UrlStop == Whitespace \cup {"<", ">", "\""}
GapStop == {"\"", "'", "<", ">"}
GroupStop == Whitespace \cup GapStop
Separators == {":", "="}
Punctuation == {".", ",", ";", ":"}

Https ==
    <<"h", "t", "t", "p", "s", ":", "/", "/">>
Http ==
    <<"h", "t", "t", "p">>
InterviewWord ==
    <<"i", "n", "t", "e", "r", "v", "i", "e", "w">>
JoinWord ==
    <<"j", "o", "i", "n">>
MeetingWord ==
    <<"m", "e", "e", "t", "i", "n", "g">>
LinkWord ==
    <<"l", "i", "n", "k">>
UrlWord ==
    <<"u", "r", "l">>

\* word is in str at position i
At(word, str, i) ==
    i + Len(word) - 1 <= Len(str) /\ SubSeq(str, i, i + Len(word) - 1) = word

Occurrences(word, str) == {i \in 1..Len(str) : At(word, str, i)}

\* str.startswith(prefix)
StartsWith(str, prefix) == At(prefix, str, 1)

\* where the run of characters outside stop that begins at i ends (i - 1
\* when it is empty)
RunEnd(str, i, stop) ==
    LET stops == {k \in i..Len(str) : str[k] \in stop}
    IN  IF stops = {} THEN Len(str) ELSE Min(stops) - 1

\* str.strip()
strip(str) ==
    LET kept == {k \in 1..Len(str) : str[k] \notin Whitespace}
    IN  IF kept = {} THEN <<>> ELSE SubSeq(str, Min(kept), Max(kept))

\* str.rstrip(chars)
rstrip(str, chars) ==
    LET kept == {k \in 1..Len(str) : str[k] \notin chars}
    IN  IF kept = {} THEN <<>> ELSE SubSeq(str, 1, Max(kept))

\* what re.findall gives first: the matched text, or nothing
NoMatch == <<>>

\* r'https://[^\s<>"]*interview[^\s<>"]*' with re.IGNORECASE: the leftmost
\* "https://" whose run of characters up to whitespace, <, > or " holds
\* "interview"; the match is the whole run
url_pattern(text) ==
    LET low == lower(text)
        words == Occurrences(InterviewWord, low)
        Stop(i) == RunEnd(text, i + Len(Https), UrlStop)
        starts == {i \in Occurrences(Https, low) :
                     \E j \in words : /\ j >= i + Len(Https)
                                      /\ j + Len(InterviewWord) - 1 <= Stop(i)}
    IN  IF starts = {} THEN NoMatch
        ELSE SubSeq(text, Min(starts), Stop(Min(starts)))

\* r'first[^"\'<>]*?second[^"\'<>]*?[:=]\s*([^\s"\'<>]+)' with
\* re.IGNORECASE: the leftmost first, then the nearest second, then the
\* nearest separator that a group follows, no quote or angle bracket in
\* between; the match is the group, the run up to whitespace, a quote or
\* an angle bracket
keyed_pattern(text, first, second) ==
    LET low == lower(text)
        barred == {k \in 1..Len(text) : text[k] \in GapStop}
        Clear(a, b) == barred \cap (a..b) = {}
        Group(c) == LET rest == {k \in (c + 1)..Len(text) : text[k] \notin Whitespace}
                    IN  IF rest = {} THEN Len(text) + 1 ELSE Min(rest)
        Seps(j) == {c \in (j + Len(second))..Len(text) :
                      /\ text[c] \in Separators
                      /\ Clear(j + Len(second), c - 1)
                      /\ Group(c) <= Len(text)
                      /\ text[Group(c)] \notin GroupStop}
        Seconds(i) == {j \in Occurrences(second, low) :
                         /\ j >= i + Len(first)
                         /\ Clear(i + Len(first), j - 1)
                         /\ Seps(j) # {}}
        firsts == {i \in Occurrences(first, low) : Seconds(i) # {}}
    IN  IF firsts = {} THEN NoMatch
        ELSE LET g == Group(Min(Seps(Min(Seconds(Min(firsts))))))
             IN  SubSeq(text, g, RunEnd(text, g, GroupStop))

\* the four patterns in the order of the list, lines 409-414
first_match(text, k) ==
    CASE k = 1 -> url_pattern(text)
      [] k = 2 -> keyed_pattern(text, JoinWord, MeetingWord)
      [] k = 3 -> keyed_pattern(text, InterviewWord, LinkWord)
      [] k = 4 -> keyed_pattern(text, InterviewWord, UrlWord)

\* line 421
clean(url) == rstrip(strip(url), Punctuation)

\* the value returned: a url, or None
NoUrl == [found |-> FALSE]
Url(url) == [found |-> TRUE, url |-> url]

Accepted(text, k) ==
    first_match(text, k) # NoMatch /\ StartsWith(clean(first_match(text, k)), Http)

\* _extract_interview_url with the patterns tried from the last to the first
extract_interview_url_last_first(text) ==
    LET hits == {k \in 1..4 : Accepted(text, k)}
    IN  IF hits = {} THEN NoUrl ELSE Url(clean(first_match(text, Max(hits))))

\* _extract_interview_url, lines 406-424
extract_interview_url_text(text) ==
    LET hits == {k \in 1..4 : Accepted(text, k)}
    IN  IF hits = {} THEN NoUrl ELSE Url(clean(first_match(text, Min(hits))))

\* pieces of message text, and the texts made of them
ExampleText ==
    <<"j", "o", "i", "n", " ", "t", "h", "e", " ", "m", "e", "e", "t", "i",
      "n", "g", ":", " ", "h", "t", "t", "p", "s", ":", "/", "/", "p", "o",
      "r", "t", "a", "l", ".", "e", "x", "a", "m", "p", "l", "e", ".", "c",
      "o", "m", "/", "i", "n", "t", "e", "r", "v", "i", "e", "w", "/", "a",
      "b", "c", "?", "x", "=", "1", " ", "f", "o", "r">>
LinkWithDot ==
    <<"h", "t", "t", "p", "s", ":", "/", "/", "a", ".", "c", "o", "/", "i",
      "n", "t", "e", "r", "v", "i", "e", "w", ".">>
LinkUpperCase ==
    <<"H", "T", "T", "P", "S", ":", "/", "/", "A", ".", "C", "O", "/", "I",
      "N", "T", "E", "R", "V", "I", "E", "W">>
InterviewLink ==
    <<"I", "n", "t", "e", "r", "v", "i", "e", "w", " ", "l", "i", "n", "k",
      ":", " ", "h", "t", "t", "p", ":", "/", "/", "b", ".", "c", "o", "/",
      "r", ";">>
InterviewUrlNoScheme ==
    <<"i", "n", "t", "e", "r", "v", "i", "e", "w", " ", "u", "r", "l", " ",
      "=", " ", "z", "o", "o", "m", ".", "u", "s", "/", "j", "/", "1">>
MeetingLink ==
    <<"J", "o", "i", "n", " ", "o", "u", "r", " ", "m", "e", "e", "t", "i",
      "n", "g", ":", " ", "h", "t", "t", "p", "s", ":", "/", "/", "c", ".",
      "c", "o", "/", "m", ",">>
MeetingColons ==
    <<"j", "o", "i", "n", " ", "t", "h", "e", " ", "m", "e", "e", "t", "i",
      "n", "g", ":", ":", " ", "s", "o", "o", "n">>
LinkInBrackets ==
    <<"<", "h", "t", "t", "p", "s", ":", "/", "/", "d", ".", "c", "o", "/",
      "i", "n", "t", "e", "r", "v", "i", "e", "w", ">">>
PlainText ==
    <<"h", "e", "l", "l", "o">>
Segments ==
    {ExampleText, LinkWithDot, LinkUpperCase,
     InterviewLink, InterviewUrlNoScheme, MeetingLink,
     MeetingColons, LinkInBrackets, PlainText}
Texts == {Join(pieces) : pieces \in Seqs(Segments, MaxSegments)}

\* a text is given, then searched
GiveText(text) ==
    /\ last = NoCall
    /\ last' = [op |-> "text", text |-> text]
    /\ UNCHANGED PlanVars

ExtractInterviewUrl ==
    /\ last.op = "text"
    /\ last' = [op |-> "extract_interview_url", text |-> last.text,
                url |-> extract_interview_url_text(last.text)]
    /\ UNCHANGED PlanVars

NextExtract ==
    \/ \E text \in Texts : GiveText(text)
    \/ ExtractInterviewUrl

SpecExtract == InitStore /\ [][NextExtract]_vars

---------------------------------------------------------------------------
(* agents/interview_agent.py: _analyze_code. A piece of code is given by   *)
(* what the analysis reads of it: how many lines it has, whether the last  *)
(* line ends with a newline character, and whether it is valid Python      *)

MaxLines == 52

\* line 553: len(lines) > 50
LongBlock == 50

PythonName == <<"p", "y", "t", "h", "o", "n">>
Languages == {PythonName, <<"P", "y", "t", "h", "o", "n">>, <<"j", "a", "v", "a">>}

\* "" has no line; a final newline needs a line to end
Codes ==
    {[lines |-> n, newline |-> nl, valid |-> v] :
        n \in 0..MaxLines, nl \in BOOLEAN, v \in BOOLEAN} \
    {c \in [lines : {0}, newline : BOOLEAN, valid : BOOLEAN] : c.newline \/ ~c.valid}

\* len(code.split('\n')): one more than the newline characters in code
split_count(code) ==
    IF code.lines = 0 THEN 1
    ELSE code.lines + (IF code.newline THEN 1 ELSE 0)

SyntaxIssue == [type |-> "syntax_error", severity |-> "high"]
SmellIssue == [type |-> "code_smell", severity |-> "medium"]

\* lines 540-549: ast.parse raising SyntaxError, for Python alone
syntax_issues(code, language) ==
    IF lower(language) = PythonName /\ ~code.valid THEN <<SyntaxIssue>> ELSE <<>>

\* lines 552-558
smell_issues(code) ==
    IF split_count(code) > LongBlock THEN <<SmellIssue>> ELSE <<>>

\* _analyze_code taking twenty points off for an issue
analyze_code_twenty(code, language) ==
    LET issues == syntax_issues(code, language) \o smell_issues(code)
    IN  [issues |-> issues,
         quality_score |-> Max({0, 100 - Len(issues) * 20}),
         language |-> language]

\* _analyze_code, without the messages and code_length
analyze_code(code, language) ==
    LET issues == syntax_issues(code, language) \o smell_issues(code)
    IN  [issues |-> issues,
         quality_score |-> Max({0, 100 - Len(issues) * 10}),
         language |-> language]

\* a piece of code is given, then analyzed
GiveCode(code, language) ==
    /\ last = NoCall
    /\ last' = [op |-> "code", code |-> code, language |-> language]
    /\ UNCHANGED PlanVars

AnalyzeCode ==
    /\ last.op = "code"
    /\ last' = [op |-> "analyze_code", code |-> last.code,
                language |-> last.language,
                analysis |-> analyze_code(last.code, last.language)]
    /\ UNCHANGED PlanVars

NextAnalyze ==
    \/ \E code \in Codes, language \in Languages : GiveCode(code, language)
    \/ AnalyzeCode

SpecAnalyze == InitStore /\ [][NextAnalyze]_vars

---------------------------------------------------------------------------
(* The poll cycle: process_new_messages runs _process_emails and then      *)
(* _process_sms, each over the unread items it polls when it starts        *)

\* what arrives: an e-mail on a provider thread, or an SMS-gateway e-mail
\* (the stop keyword means something in an SMS only)
ItemInputs ==
    {[thread_id |-> "t1", body |-> b, phone |-> None] : b \in Bodies \ {"STOP"}}
    \cup {[thread_id |-> "t2", body |-> "hello", phone |-> None]}
    \cup {[thread_id |-> "t2", body |-> b, phone |-> ph] :
            b \in {"hello", "STOP"}, ph \in Phones}

NextStageInputs == {Missing, "negotiation", "declined"}

NothingExtracted == [f \in ExtractedFields |-> Missing]

ExtractedInputs ==
    {NothingExtracted,
     [NothingExtracted EXCEPT !.company = "Acme", !.position = ""],
     [NothingExtracted EXCEPT !.company = "", !.position = "Engineer",
                              !.salary_range = None]}

EscalationInputs == {<<FALSE, Missing>>, <<TRUE, "salary">>, <<TRUE, Missing>>}

Response(ns, ex, esc) ==
    [response |-> "reply", next_stage |-> ns, extracted_info |-> ex,
     requires_escalation |-> esc[1], escalation_reason |-> esc[2]]

\* a reply that moves no stage, extracts nothing and asks for no escalation
PlainReply == Response(Missing, NothingExtracted, <<FALSE, Missing>>)

\* what the response generator returns: the plain reply, changed in one part
Responses ==
    {Response(ns, NothingExtracted, <<FALSE, Missing>>) : ns \in NextStageInputs}
    \cup {Response(Missing, ex, <<FALSE, Missing>>) : ex \in ExtractedInputs}
    \cup {Response(Missing, NothingExtracted, esc) : esc \in EscalationInputs}

Faults == {"add_label", "get_state", "save_state", "save_message",
           "generate_response", "update_state", "save_interview_state", "save_link",
           "mark_for_escalation", "request_approval", "save_outgoing", "mark_as_read"}

\* nothing goes wrong while an item is handled
Flawless == [fault |-> "none", transport |-> "ok", browser |-> "ok"]

\* at most one thing goes wrong while an item is handled
EnvInputs ==
    {[fault |-> f, transport |-> "ok", browser |-> "ok"] : f \in Faults \cup {"none"}}
    \cup {[fault |-> "none", transport |-> t, browser |-> "ok"] : t \in {"failed", "raised"}}
    \cup {[fault |-> "none", transport |-> "ok", browser |-> b] :
            b \in {"no_browser", "no_page"}}

\* An item that arrives while a loop is in its list is not in that list, so
\* its arrival is taken when the loop is through (or none is running).
Deliver(item) ==
    /\ idx > Len(batch)
    /\ \E i \in 1..MaxItems :
          /\ mailbox[i] = NotArrived
          /\ \A j \in 1..(i - 1) : mailbox[j] # NotArrived
          /\ mailbox' = [mailbox EXCEPT ![i] =
                 [id |-> i, thread_id |-> item.thread_id, body |-> item.body,
                  phone |-> item.phone, unread |-> TRUE, labels |-> {}]]
    /\ UNCHANGED <<storeVars, auto_reply_enabled, require_approval, pc, batch, idx,
                   sent, approvals, notified, agent, browsers, last>>

\* process_new_messages is called: _process_emails polls
PollEmails ==
    /\ pc = "idle"
    /\ clock <= MaxHandled
    /\ pc' = "emails"
    /\ batch' = get_unread_recruiter_emails(mailbox)
    /\ idx' = 1
    /\ UNCHANGED <<storeVars, mailbox, auto_reply_enabled, require_approval,
                   sent, approvals, notified, agent, browsers, last>>

\* _process_emails is through its list: _process_sms polls
PollSms ==
    /\ pc = "emails" /\ idx > Len(batch)
    /\ pc' = "sms"
    /\ batch' = get_unread_recruiter_emails(mailbox)
    /\ idx' = 1
    /\ UNCHANGED <<storeVars, mailbox, auto_reply_enabled, require_approval,
                   sent, approvals, notified, agent, browsers, last>>

\* _process_sms is through its list: process_new_messages returns
Return ==
    /\ pc = "sms" /\ idx > Len(batch)
    /\ pc' = "idle"
    /\ batch' = <<>>
    /\ idx' = 1
    /\ UNCHANGED <<storeVars, mailbox, auto_reply_enabled, require_approval,
                   sent, approvals, notified, agent, browsers, last>>

\* one iteration of a channel loop has run and left h
Iterate(op, email, response_data, h) ==
    /\ conversations' = h.world.conversations
    /\ messages' = h.world.messages
    /\ interview_sessions' = h.world.interview_sessions
    /\ mailbox' = h.world.mailbox
    /\ sent' = h.world.sent
    /\ approvals' = h.world.approvals
    /\ notified' = h.world.notified
    /\ agent' = h.world.agent
    /\ browsers' = h.world.browsers
    /\ clock' = clock + 1
    /\ pc' = IF h.raised THEN on_exception(pc) ELSE pc
    /\ idx' = idx + 1
    /\ last' = [op |-> op, item |-> email.id, thread_id |-> h.thread_id,
                route |-> h.route, raised |-> h.raised,
                response |-> h.response,
                labeled |-> ProcessedLabel \in email.labels,
                before |-> IF h.thread_id = None THEN NoRow
                           ELSE conversations[h.thread_id],
                logged |-> Len(messages), sends |-> Len(sent),
                approved |-> Len(approvals), notices |-> Len(notified),
                handoffs |-> Len(browsers), at |-> idx]
    /\ UNCHANGED <<auto_reply_enabled, require_approval, batch>>

ProcessEmail(response_data, env) ==
    /\ pc = "emails" /\ idx <= Len(batch)
    /\ clock <= MaxHandled
    /\ Iterate("email", mailbox[batch[idx]], response_data,
               process_email(World, mailbox[batch[idx]], response_data, clock, env,
                             auto_reply_enabled, require_approval))

ProcessSms(response_data, env) ==
    /\ pc = "sms" /\ idx <= Len(batch)
    /\ clock <= MaxHandled
    /\ Iterate("sms", mailbox[batch[idx]], response_data,
               process_sms(World, mailbox[batch[idx]], response_data, clock, env,
                           auto_reply_enabled))

\* the poll cycle when every call succeeds
Next ==
    \/ \E item \in ItemInputs : Deliver(item)
    \/ PollEmails
    \/ \E r \in Responses : ProcessEmail(r, Flawless)
    \/ PollSms
    \/ \E r \in Responses : ProcessSms(r, Flawless)
    \/ Return

Spec == Init /\ [][Next]_vars

\* the poll cycle when calls fail, with automatic replies on
InitFaults == Init /\ auto_reply_enabled

NextFaults ==
    \/ \E item \in ItemInputs : Deliver(item)
    \/ PollEmails
    \/ \E env \in EnvInputs : ProcessEmail(PlainReply, env)
    \/ PollSms
    \/ \E env \in EnvInputs : ProcessSms(PlainReply, env)
    \/ Return

SpecFaults == InitFaults /\ [][NextFaults]_vars

\* the poll cycle when every call succeeds and the generator gives the
\* plain reply
NextPlain ==
    \/ \E item \in ItemInputs : Deliver(item)
    \/ PollEmails
    \/ ProcessEmail(PlainReply, Flawless)
    \/ PollSms
    \/ ProcessSms(PlainReply, Flawless)
    \/ Return

SpecPlain == Init /\ [][NextPlain]_vars

---------------------------------------------------------------------------
\* C1: after create_conversation(thread_id, channel, msg) has returned for a
\* thread_id that was not in the store, get_state(thread_id) gives a state
\* with that thread_id, stage initial_contact and a conversation_history of
\* exactly one element, which equals the caller's msg.
C1_CreateThenGet ==
    (last.op = "create_conversation" /\ ~last.existed /\ ~last.raised) =>
        LET s == get_state(conversations, last.thread_id)
        IN  /\ s # NoRow
            /\ s.thread_id = last.thread_id
            /\ s.stage = "initial_contact"
            /\ Len(s.conversation_history) = 1
            /\ s.conversation_history[1] = last.message

\* a create of a new thread whose message carried a datetime timestamp
C1_Witness ==
    /\ last.op = "create_conversation" /\ ~last.existed /\ ~last.raised
    /\ last.arg.timestamp.kind = "datetime"
    /\ get_state(conversations, last.thread_id) # NoRow

---------------------------------------------------------------------------
(* Properties of the channel loops, over what the last iteration found     *)
(* (last.before, the counts) and what it left                              *)

LastItem == mailbox[last.item]
LastRow == conversations[last.thread_id]
HandledEmail == last.op = "email" /\ ~last.raised
LastHadUrl == extract_interview_url(LastItem.body) # None
EscalationBefore ==
    IF last.before = NoRow THEN <<FALSE, None>>
    ELSE <<last.before.requires_escalation, last.before.escalation_reason>>
FieldBefore(f) ==
    IF last.before = NoRow
    THEN (IF f \in {"salary_range", "work_arrangement"} THEN None ELSE "")
    ELSE last.before[f]

\* C2: with require_approval on, the send transport (e-mail or SMS) is never
\* called.
C2_NoSendUnderApproval == require_approval => sent = <<>>

\* C3: an e-mail in which an interview URL is detected is handed to the
\* interview controller, and its handling marks no escalation, notifies
\* nobody, sends nothing and writes no approval record, whatever the
\* generator's escalation flag and the configuration are.
C3_InterviewShortCircuits ==
    (HandledEmail /\ LastHadUrl) =>
        /\ last.route = "interview"
        /\ Len(browsers) = last.handoffs + 1
        /\ agent.interview_state.interview_url = extract_interview_url(LastItem.body)
        /\ <<LastRow.requires_escalation, LastRow.escalation_reason>> = EscalationBefore
        /\ Len(notified) = last.notices
        /\ Len(sent) = last.sends
        /\ Len(approvals) = last.approved

\* an e-mail with a link was handled while the generator asked for escalation
\* and automatic replies were on
C3_Witness ==
    /\ HandledEmail /\ LastHadUrl
    /\ last.response.requires_escalation
    /\ auto_reply_enabled

\* C4: an e-mail without interview URL whose generator result asks for
\* escalation leaves the thread with requires_escalation set and the
\* generator's reason stored, the operator is notified once, nothing is sent
\* and no approval record is written.
C4_EscalationMarksAndNotifies ==
    (HandledEmail /\ ~LastHadUrl /\ last.response.requires_escalation) =>
        /\ LastRow.requires_escalation = TRUE
        /\ LastRow.escalation_reason =
               Get(last.response.escalation_reason, "Unknown reason")
        /\ Len(notified) = last.notices + 1
        /\ notified[Len(notified)].thread_id = last.thread_id
        /\ Len(sent) = last.sends
        /\ Len(approvals) = last.approved

\* an escalation with a reason was handled while automatic replies were on
C4_Witness ==
    /\ HandledEmail /\ ~LastHadUrl
    /\ last.response.requires_escalation
    /\ last.response.escalation_reason = "salary"
    /\ auto_reply_enabled

\* C5: an e-mail without interview URL and without escalation flag has one of
\* three outcomes, fixed by the configuration: auto-reply on and approval off,
\* one send and no approval record; both on, one approval record and no send;
\* auto-reply off, neither.
C5_ReplyDecision ==
    (HandledEmail /\ ~LastHadUrl /\ ~last.response.requires_escalation) =>
        LET sends == Len(sent) - last.sends
            records == Len(approvals) - last.approved
        IN  /\ (auto_reply_enabled /\ ~require_approval) => (sends = 1 /\ records = 0)
            /\ (auto_reply_enabled /\ require_approval) => (sends = 0 /\ records = 1)
            /\ ~auto_reply_enabled => (sends = 0 /\ records = 0)

\* a reply was queued for approval
C5_Witness ==
    /\ HandledEmail /\ ~LastHadUrl /\ ~last.response.requires_escalation
    /\ require_approval /\ auto_reply_enabled
    /\ Len(approvals) = last.approved + 1

\* C6: merging the extracted fields keeps every non-empty field for which the
\* generator gave an empty or no value, and merging the same result a second
\* time changes none of the five fields.
C6_MergeKeepsAndIsIdempotent ==
    HandledEmail =>
        LET s == get_state(conversations, last.thread_id)
            again == ApplyUpdates(s, merge_updates(s, last.response))
        IN  \A f \in ExtractedFields :
                /\ (Truthy(FieldBefore(f)) /\ ~Truthy(last.response.extracted_info[f]))
                       => s[f] = FieldBefore(f)
                /\ again[f] = s[f]

\* a thread that had a company got a result with an empty company
C6_Witness ==
    /\ HandledEmail
    /\ Truthy(FieldBefore("company"))
    /\ last.response.extracted_info["company"] = ""

\* C7: an exception raised while an item is handled leaves the loop at the
\* next item of its list; it never leaves process_new_messages.
C7_LoopSurvivesExceptions ==
    /\ pc \in {"idle", "emails", "sms"}
    /\ (last.op \in {"email", "sms"} /\ last.raised /\ batch # <<>> /\ idx = last.at + 1)
          => pc = (IF last.op = "email" THEN "emails" ELSE "sms")

\* the first e-mail of a list of two failed before its conversation was
\* created, and the second was handled
C7_Witness ==
    /\ pc = "emails" /\ Len(batch) = 2 /\ idx = 3
    /\ HandledEmail /\ last.at = 2
    /\ ProcessedLabel \in mailbox[batch[1]].labels
    /\ conversations[mailbox[batch[1]].thread_id] = NoRow

\* C8: handling an item that already carries the processed label changes no
\* conversation, appends no message and sends nothing.
C8_LabeledItemIsNoOp ==
    (last.op \in {"email", "sms"} /\ last.labeled /\ last.thread_id # None) =>
        /\ LastRow = last.before
        /\ Len(messages) = last.logged
        /\ Len(sent) = last.sends
        /\ Len(approvals) = last.approved

\* C9: an item whose handling failed with an exception is unread and carries
\* no processed label.
C9_FailedItemCarriesNoMark ==
    (last.op \in {"email", "sms"} /\ last.raised) =>
        /\ LastItem.unread
        /\ ProcessedLabel \notin LastItem.labels

\* C10: a thread whose stage is declined keeps that stage.
C10_DeclinedIsTerminal ==
    [][\A t \in ThreadIds :
          (conversations[t] # NoRow /\ conversations[t].stage = "declined")
              => (conversations'[t] # NoRow /\ conversations'[t].stage = "declined")]_vars


---------------------------------------------------------------------------
(* Properties of the store's operations, over the tables the last call     *)
(* found (last.before, last.logged) and the tables it left                 *)

HistoryBefore == get_state(last.before, last.thread_id).conversation_history
HistoryAfter == get_state(conversations, last.thread_id).conversation_history

\* C11: an add_message call that returns, on a thread that exists, leaves a
\* stored conversation_history one longer than it found, with the new
\* message last and every earlier message at its position.
C11_AddMessageAppends ==
    (last.op = "add_message" /\ last.existed /\ ~last.raised) =>
        /\ Len(HistoryAfter) = Len(HistoryBefore) + 1
        /\ HistoryAfter[Len(HistoryAfter)] = last.message
        /\ SubSeq(HistoryAfter, 1, Len(HistoryBefore)) = HistoryBefore

\* an add_message on a thread whose history already held two messages
C11_Witness ==
    /\ last.op = "add_message" /\ last.existed /\ ~last.raised
    /\ Len(HistoryBefore) = 2
    /\ HistoryBefore[1] # HistoryBefore[2]

StoreOps == {"create_conversation", "update_state", "add_message",
             "mark_for_escalation"}

IsPrefix(s, t) == Len(s) <= Len(t) /\ SubSeq(t, 1, Len(s)) = s

\* C12: no store operation truncates a stored conversation_history: a
\* thread the call found stored is still stored afterwards, and the history
\* the call found is a prefix of the history it leaves.
C12_HistoryNeverTruncated ==
    last.op \in StoreOps =>
        \A t \in ThreadIds :
            last.before[t] # NoRow =>
                /\ conversations[t] # NoRow
                /\ IsPrefix(last.before[t].conversation_history,
                            conversations[t].conversation_history)

StateBefore == get_state(last.before, last.thread_id)
StateAfter == get_state(conversations, last.thread_id)

\* C13: mark_for_escalation(t, r2) on a thread that mark_for_escalation(t, r1)
\* has marked leaves requires_escalation true and escalation_reason = r2,
\* and no field other than these and updated_at differs from the state the
\* first mark left.
C13_SecondMarkWins ==
    (/\ last.op = "mark_for_escalation" /\ ~last.raised
     /\ StateBefore.requires_escalation = TRUE) =>
        /\ StateAfter.requires_escalation = TRUE
        /\ StateAfter.escalation_reason = last.arg
        /\ \A k \in DOMAIN StateBefore \ {"updated_at", "escalation_reason"} :
               StateAfter[k] = StateBefore[k]

\* a second mark whose reason differs from the first mark's
C13_Witness ==
    /\ last.op = "mark_for_escalation" /\ ~last.raised
    /\ StateBefore.requires_escalation = TRUE
    /\ StateBefore.escalation_reason \notin {None, last.arg}
    /\ StateAfter.updated_at > StateBefore.updated_at

\* C14: update_state and mark_for_escalation on a thread_id that is not
\* stored raise the not-found ValueError, create no row and leave the
\* conversations and the messages as they were.
C14_UpdateOfMissingThreadFails ==
    (last.op \in {"update_state", "mark_for_escalation"} /\ ~last.existed) =>
        /\ last.raised
        /\ last.error = "ValueError"
        /\ conversations[last.thread_id] = NoRow
        /\ conversations = last.before
        /\ messages = last.logged

\* a mark of a thread that is not stored, while another thread is
C14_Witness ==
    /\ last.op = "mark_for_escalation" /\ ~last.existed
    /\ \E t \in ThreadIds : conversations[t] # NoRow
    /\ messages # <<>>

\* C15: create_conversation on a thread_id that is stored does not fail for
\* that reason (it raises only what a create of a new thread raises too: the
\* TypeError of a message json cannot encode, a database failure). When it
\* returns, the stored state is a fresh one: stage initial_contact, a history
\* of the new message alone, requires_escalation false, and the thread_id
\* has its one row.
C15_CreateReplaces ==
    (last.op = "create_conversation" /\ last.existed) =>
        /\ last.raised =>
              \/ last.error = "TypeError" /\ ~JsonSerializable(last.message)
              \/ last.error = "sqlite3.Error"
        /\ ~last.raised =>
              /\ conversations[last.thread_id] # NoRow
              /\ StateAfter.thread_id = last.thread_id
              /\ StateAfter.stage = "initial_contact"
              /\ StateAfter.conversation_history = <<last.message>>
              /\ StateAfter.requires_escalation = FALSE
              /\ StateAfter = last.state

\* a create that returns, on a thread that was marked for escalation
C15_Witness ==
    /\ last.op = "create_conversation" /\ last.existed /\ ~last.raised
    /\ StateBefore.requires_escalation = TRUE
    /\ StateBefore.conversation_history # StateAfter.conversation_history

Active == {t \in ThreadIds : conversations[t] # NoRow
                              /\ conversations[t].stage # "declined"}

\* C16: get_active_conversations returns the stored conversations whose
\* stage is not declined and no others, each once and as get_state gives
\* it, from the most recently updated to the least recently updated.
C16_ActiveConversationsListed ==
    last.op = "get_active_conversations" =>
        LET result == last.result
        IN  /\ {result[i].thread_id : i \in 1..Len(result)} = Active
            /\ Len(result) = Cardinality(Active)
            /\ \A i \in 1..Len(result) :
                   result[i] = get_state(conversations, result[i].thread_id)
            /\ \A i, j \in 1..Len(result) :
                   i < j => result[i].updated_at >= result[j].updated_at

\* two active conversations, the one created first updated last
C16_Witness ==
    /\ last.op = "get_active_conversations"
    /\ Len(last.result) = 2
    /\ last.result[1].created_at < last.result[2].created_at
    /\ last.result[1].updated_at > last.result[2].updated_at

---------------------------------------------------------------------------
(* Properties of the interview-session table *)

RowsOf(table, interview_url) ==
    {i \in 1..Len(table) : table[i].url = interview_url}

\* C17: an update_interview_state(url, u) that returns leaves, as the state
\* stored for url, the state stored before (the empty dict if there was no
\* row) with the keys of u set to u's values and every other key as it was;
\* and after every save and update the table holds at most one row per url.
C17_UpdateMergesOneRowPerUrl ==
    /\ \A u \in Urls : Cardinality(RowsOf(interview_sessions, u)) <= 1
    /\ (last.op = "update_interview_state" /\ ~last.raised) =>
          LET old == get_interview_state(last.before, last.url)
              new == get_interview_state(interview_sessions, last.url)
          IN  /\ Cardinality(RowsOf(interview_sessions, last.url)) = 1
              /\ DOMAIN new = DOMAIN old \cup DOMAIN last.arg
              /\ \A k \in DOMAIN last.arg : new[k] = last.arg[k]
              /\ \A k \in DOMAIN old \ DOMAIN last.arg : new[k] = old[k]

\* an update of a stored state that overwrites one of its keys, keeps
\* others, and is not the only row of the table
C17_Witness ==
    /\ last.op = "update_interview_state" /\ ~last.raised
    /\ LET old == get_interview_state(last.before, last.url)
       IN  /\ \E k \in DOMAIN old \cap DOMAIN last.arg : old[k] # last.arg[k]
           /\ DOMAIN old \ DOMAIN last.arg # {}
    /\ Len(interview_sessions) = 2

---------------------------------------------------------------------------
(* Properties of the interview controller, over the controller and the     *)
(* tables the last call found (last.agent, last.before, last.opened)       *)

\* the state stored for the url of the controller's session
PersistedSession ==
    get_interview_state(interview_sessions, agent.interview_state.interview_url)

\* a log of the stored state; a stored state without the key has no entries
PersistedLog(k) ==
    IF k \in DOMAIN PersistedSession THEN PersistedSession[k] ELSE <<>>

\* C18: after every start_interview, analyze_code_snippet and
\* answer_question that reports success, the state stored for the
\* controller's url has the questions_answered and the
\* code_snippets_analyzed of the controller's in-memory state.
C18_WriteThrough ==
    (/\ last.op \in {"start_interview", "analyze_code_snippet", "answer_question"}
     /\ last.success) =>
        \A k \in {"questions_answered", "code_snippets_analyzed"} :
            PersistedLog(k) = agent.interview_state[k]

\* C19: every browser session the controller has opened is its current one
\* or has been closed, so at most one is open.
C19_OneBrowserSession ==
    \A i \in 1..Len(browsers) : browsers[i] = "open" => i = agent.page

\* C20: after close_interview the in-memory session state is the default
\* one (every field None, both logs empty), the controller is inactive and
\* the interview-session table is as the call found it.
C20_CloseResets ==
    last.op = "close_interview" =>
        /\ agent.interview_state = NewAgent.interview_state
        /\ ~agent.is_active
        /\ interview_sessions = last.before

---------------------------------------------------------------------------
(* Properties of next-action planning, over the page last planned for      *)

Planned == last.op = "analyze_page_and_plan"

\* C21: planning returns the action of the first of the four rules that
\* matches, taken in the order code keywords, question keywords, start
\* affordance, next affordance, and the generic analyze action when none
\* matches; it returns one action for every page.
C21_PlanFirstMatchingRule ==
    Planned =>
        LET p == last.page_content
            a == last.next_action
        IN  /\ HasCode(p) => a = [action |-> "analyze_code"]
            /\ (~HasCode(p) /\ HasQuestion(p)) => a = [action |-> "answer_question"]
            /\ (~HasCode(p) /\ ~HasQuestion(p) /\ HasAffordance(p, StartWord)) =>
                  a = [action |-> "click", target |-> "start"]
            /\ (/\ ~HasCode(p) /\ ~HasQuestion(p)
                /\ ~HasAffordance(p, StartWord) /\ HasAffordance(p, NextWord)) =>
                  a = [action |-> "click", target |-> "next"]
            /\ (/\ ~HasCode(p) /\ ~HasQuestion(p)
                /\ ~HasAffordance(p, StartWord) /\ ~HasAffordance(p, NextWord)) =>
                  a = [action |-> "analyze"]
            /\ a.action \in {"analyze_code", "answer_question", "click", "analyze"}

\* a page on which all four rules match
C21_Witness ==
    /\ Planned
    /\ HasCode(last.page_content) /\ HasQuestion(last.page_content)
    /\ HasAffordance(last.page_content, StartWord)
    /\ HasAffordance(last.page_content, NextWord)
    /\ last.next_action.action = "analyze_code"

\* a button label contains "next"
HasNextButton(page_content) ==
    \E i \in 1..Len(Buttons(page_content)) :
        In(NextWord, lower(Buttons(page_content)[i]))

\* C22 as stated: every page with a next button and no code keyword and no
\* question keyword in its text is planned as click next.
C22_NextButtonClicksNext ==
    (/\ Planned /\ HasNextButton(last.page_content)
     /\ ~HasCode(last.page_content) /\ ~HasQuestion(last.page_content)) =>
        last.next_action = [action |-> "click", target |-> "next"]

\* C22 amended: every page with a next button, no code keyword and no
\* question keyword in its text, and no "start" in its text or in a button
\* label, is planned as click next.
C22_NextButtonWithoutStartClicksNext ==
    (/\ Planned /\ HasNextButton(last.page_content)
     /\ ~HasCode(last.page_content) /\ ~HasQuestion(last.page_content)
     /\ ~HasAffordance(last.page_content, StartWord)) =>
        last.next_action = [action |-> "click", target |-> "next"]

\* a page with a next button whose text has none of the keywords
C22_Witness ==
    /\ Planned /\ HasNextButton(last.page_content)
    /\ ~HasCode(last.page_content) /\ ~HasQuestion(last.page_content)
    /\ ~HasAffordance(last.page_content, StartWord)
    /\ ~In(NextWord, lower(TextContent(last.page_content)))
    /\ TextContent(last.page_content) # <<>>
    /\ last.next_action = [action |-> "click", target |-> "next"]

---------------------------------------------------------------------------
(* Properties of interact_with_page *)

Interacted == last.op = "interact_with_page"

\* the preconditions of lines 221, 238 and 259
PreconditionUnmet ==
    \/ last.action = "click" /\ ~Truthy(last.target)
    \/ last.action = "fill" /\ (~Truthy(last.target) \/ ~Truthy(last.value))
    \/ last.action \notin {"click", "fill", "wait"}

\* C23: a call of interact_with_page whose precondition is unmet (click
\* with no target, fill with no target or no value, an unknown action)
\* returns a failure payload carrying an error, raises nothing, and makes
\* no click and no fill in the browser
C23_UnmetPreconditionFails ==
    (Interacted /\ PreconditionUnmet) =>
        /\ ~last.success
        /\ last.error # None
        /\ ~last.raised
        /\ last.calls = <<>>

\* a fill with a target and no value, on a live session whose page would
\* have taken it
C23_Witness ==
    /\ Interacted
    /\ Live(last.agent)
    /\ last.action = "fill" /\ last.target = "Next" /\ ~Truthy(last.value)
    /\ ~last.success /\ last.calls = <<>>

---------------------------------------------------------------------------
(* Properties of analyze_code_snippet and answer_question, over the text   *)
(* the last call was given (last.arg.given) and the text the page held     *)
(* (last.arg.found)                                                        *)

Analyzed == last.op = "analyze_code_snippet"
Answered == last.op = "answer_question"

\* the text the call works on: the argument, else what the page yields
TextUsed == IF Truthy(last.arg.given) THEN last.arg.given ELSE last.arg.found

LogBefore(k) == last.agent.interview_state[k]
LogAfter(k) == agent.interview_state[k]

\* C24: an answer_question that has a question (given or found on the
\* page) returns success and leaves questions_answered one entry longer,
\* the new entry being for that question, with a canned answer when the
\* language-model call raised or no processor is configured.
C24_AnswerAlwaysLogged ==
    (Answered /\ Truthy(TextUsed)) =>
        /\ last.success
        /\ ~last.raised
        /\ Len(LogAfter("questions_answered")) = Len(LogBefore("questions_answered")) + 1
        /\ IsPrefix(LogBefore("questions_answered"), LogAfter("questions_answered"))
        /\ LET entry == LogAfter("questions_answered")[Len(LogAfter("questions_answered"))]
           IN  /\ entry.question = TextUsed
               /\ last.arg.llm = "raises" => entry.answer = "canned: analyzing the requirements"
               /\ last.arg.llm = "none" => entry.answer = "canned: systematically"

\* C26: an analyze_code_snippet or answer_question with no text given and
\* none found on the page returns a failure result, raises nothing, and
\* leaves the in-memory session state and the interview-session table as
\* it found them.
C26_NothingFoundChangesNothing ==
    ((Analyzed \/ Answered) /\ ~Truthy(TextUsed)) =>
        /\ ~last.success
        /\ ~last.raised
        /\ agent = last.agent
        /\ interview_sessions = last.before

\* an answer_question on a started session that has already logged an
\* answer, with no question given and none on the page
C26_Witness ==
    /\ Answered /\ ~Truthy(TextUsed)
    /\ last.agent.is_active
    /\ LogBefore("questions_answered") # <<>>
    /\ interview_sessions # <<>>
    /\ ~last.success

\* C27: no analyze_code_snippet and no answer_question raises, in any
\* controller state.
C27_NeverRaises ==
    (Analyzed \/ Answered) => ~last.raised

---------------------------------------------------------------------------
(* Properties of the channel loops when the response generator raises, and *)
(* of the SMS loop                                                         *)

\* C25: an e-mail or SMS during whose handling the response generator
\* raised is handled on through the escalation/reply decision: the handling
\* ends in one of the loop's branches, not in the except clause, and the
\* item is not left as it was found.
C25_GenerationFailureMasked ==
    (last.op \in {"email", "sms"} /\ last.response = GeneratorRaised) =>
        /\ ~last.raised
        /\ last.route \in {"interview", "escalate", "approve", "send", "none"}

\* the SMS loop is at an item that came through the gateway with the stop
\* keyword, and handles it
StopSmsHandled ==
    /\ pc = "sms" /\ idx <= Len(batch) /\ idx' = idx + 1
    /\ parse_incoming_sms(mailbox[batch[idx]]) # NoSms
    /\ handle_special_keywords(parse_incoming_sms(mailbox[batch[idx]]).message)
           = "unsubscribe"

HandledSms == last.op = "sms" /\ last.route \in {"send", "none"}

\* C29: an SMS without interview URL whose generator result asks for
\* escalation leaves its thread with requires_escalation set and the
\* generator's reason stored, and nothing is sent for it.
C29_SmsEscalationMarked ==
    (HandledSms /\ ~LastHadUrl /\ last.response.requires_escalation) =>
        /\ LastRow.requires_escalation = TRUE
        /\ LastRow.escalation_reason =
               Get(last.response.escalation_reason, "Unknown reason")
        /\ Len(sent) = last.sends

---------------------------------------------------------------------------
(* Properties of interview URL detection, over the text last searched      *)

Extracted == last.op = "extract_interview_url"

\* what pattern k offers for the text: its first match, cleaned
Candidate(k) == clean(first_match(last.text, k))
Offers(k) == StartsWith(Candidate(k), Http)

\* the patterns are used in their order; a value returned starts with http
\* and ends with none of . , ; :
OrderedAndClean ==
    /\ \A k \in 1..4 :
          (Offers(k) /\ \A j \in 1..(k - 1) : ~Offers(j)) =>
              last.url = Url(Candidate(k))
    /\ (\A k \in 1..4 : ~Offers(k)) => last.url = NoUrl
    /\ last.url.found =>
          /\ StartsWith(last.url.url, Http)
          /\ last.url.url[Len(last.url.url)] \notin Punctuation

\* the url of ExampleText
ExampleUrl == SubSeq(ExampleText, 19, 62)

\* C30 as stated: the patterns are used in order, a returned value starts
\* with http and ends with none of . , ; :, and every text containing the
\* example text yields the example's url.
C30_ExampleAlwaysWins ==
    Extracted =>
        /\ OrderedAndClean
        /\ In(ExampleText, last.text) => last.url = Url(ExampleUrl)

\* C30: the patterns are used in order, a returned value starts with http
\* and ends with none of . , ; :, and a text containing the example text
\* in which the first pattern has no match before the example's url yields
\* the example's url.
C30_FirstMatchInOrder ==
    Extracted =>
        /\ OrderedAndClean
        /\ (/\ In(ExampleText, last.text)
            /\ url_pattern(last.text) = ExampleUrl) => last.url = Url(ExampleUrl)

\* the example after other text that has a match of a later pattern
C30_Witness ==
    /\ Extracted
    /\ In(ExampleText, last.text)
    /\ At(MeetingLink, last.text, 1)
    /\ last.url = Url(ExampleUrl)

---------------------------------------------------------------------------
(* Properties of code analysis, over the code last analyzed                *)

CodeAnalyzed == last.op = "analyze_code"

IssuesOf(kind) ==
    {i \in 1..Len(last.analysis.issues) : last.analysis.issues[i].type = kind}

HighIssues ==
    {i \in 1..Len(last.analysis.issues) : last.analysis.issues[i].severity = "high"}

\* C31: the quality score is 100 less ten per issue and not below 0; there
\* is at most one syntax issue and at most one length issue, so the score
\* is 100, 90 or 80, within 0..100.
C31_ScoreFromIssues ==
    CodeAnalyzed =>
        /\ last.analysis.quality_score = Max({0, 100 - 10 * Len(last.analysis.issues)})
        /\ Cardinality(IssuesOf("syntax_error")) <= 1
        /\ Cardinality(IssuesOf("code_smell")) <= 1
        /\ Len(last.analysis.issues) =
               Cardinality(IssuesOf("syntax_error")) + Cardinality(IssuesOf("code_smell"))
        /\ last.analysis.quality_score \in {100, 90, 80}
        /\ last.analysis.quality_score \in 0..100

\* invalid Python of more than fifty lines: both issues, score 80
C31_Witness ==
    /\ CodeAnalyzed
    /\ Len(last.analysis.issues) = 2
    /\ last.analysis.quality_score = 80

\* C32: Python code that does not parse gets exactly one high-severity
\* issue and a score of at most 90; code that parses and has at most 50
\* lines gets no issue and the score 100.
C32_ParseDecidesIssues ==
    CodeAnalyzed =>
        /\ (lower(last.language) = PythonName /\ ~last.code.valid) =>
              /\ Cardinality(HighIssues) = 1
              /\ last.analysis.quality_score <= 90
        /\ (/\ lower(last.language) = PythonName
            /\ last.code.valid /\ last.code.lines <= LongBlock) =>
              /\ last.analysis.issues = <<>>
              /\ last.analysis.quality_score = 100

---------------------------------------------------------------------------
(* Properties of the poll cycles over the whole run                        *)

\* the calls of the send transport for an item that went through
RepliesSent(item) ==
    {k \in 1..Len(sent) : sent[k].item = item /\ sent[k].outcome = "ok"}

\* C33: over all poll cycles at most one reply is sent for an inbound item,
\* whatever fails while it is handled.
C33_OneReplyPerItem ==
    \A item \in 1..MaxItems : Cardinality(RepliesSent(item)) <= 1

\* the SMS loop handled the item as an SMS (it came through the gateway)
SmsProcessed == last.op = "sms" /\ last.route # "not_sms"

\* C34: an item the SMS loop handles has not been handled by the e-mail
\* loop: it does not carry the label the e-mail loop puts on every e-mail
\* it starts on. (An item that is unread and labelled when the SMS loop
\* polls was in the list of the e-mail loop of the same call.)
C34_OneChannelPerItem ==
    SmsProcessed => ~last.labeled

---------------------------------------------------------------------------
(* The message log against the stored histories                            *)

\* the rows of the messages table written for a thread
LogRows(t) == {k \in 1..Len(messages) : messages[k].thread_id = t}

StoredHistory(t) ==
    IF conversations[t] = NoRow THEN <<>> ELSE conversations[t].conversation_history

\* C35: after a store operation that returned, every thread has as many
\* rows in the message log as its stored conversation_history has
\* elements, and a thread without conversation row has none.
C35_LogMatchesHistory ==
    (last.op \in StoreOps /\ ~last.raised) =>
        \A t \in ThreadIds : Cardinality(LogRows(t)) = Len(StoredHistory(t))

---------------------------------------------------------------------------
(* What the handling of the last item sent and recorded                    *)

ItemHandled == last.op \in {"email", "sms"} /\ last.thread_id # None

\* the sends of this handling that the transport reported as successful
NewSends == {k \in (last.sends + 1)..Len(sent) : sent[k].outcome = "ok"}

\* the outgoing rows this handling added to the message log
NewOutgoingRows ==
    {k \in (last.logged + 1)..Len(messages) : messages[k].direction = "outgoing"}

Outgoing(history) == {k \in 1..Len(history) : history[k].direction = "outgoing"}

HistoryOf(row) == IF row = NoRow THEN <<>> ELSE row.conversation_history

\* C36: the handling of an item adds one outgoing record to the thread's
\* history and to the message log for each send the transport reported as
\* successful, and none for a send that failed or was skipped.
C36_OutgoingRecordPerSend ==
    ItemHandled =>
        /\ Cardinality(NewOutgoingRows) = Cardinality(NewSends)
        /\ Cardinality(Outgoing(HistoryOf(LastRow))) =
               Cardinality(Outgoing(HistoryOf(last.before))) + Cardinality(NewSends)

---------------------------------------------------------------------------
(* The interview hand-off and the thread it came from                      *)

HandedOff == last.op = "email" /\ last.route = "interview"

\* what a start_interview that returned success has left: a browser
\* session opened by this handling, the controller active and started on
\* the url, and a stored session for the url
StartLeftSession ==
    /\ Len(browsers) = last.handoffs + 1
    /\ agent.is_active
    /\ agent.interview_state.current_step = "started"
    /\ agent.interview_state.interview_url = extract_interview_url(LastItem.body)
    /\ get_interview_state(interview_sessions,
                           extract_interview_url(LastItem.body)) # EmptyDict

MetadataBefore ==
    IF last.before = NoRow THEN EmptyMetadata ELSE last.before.metadata

StageAfterMerge ==
    Get(last.response.next_stage,
        IF last.before = NoRow THEN "initial_contact" ELSE last.before.stage)

\* C37: a hand-off whose start_interview did not start the session leaves
\* the thread's metadata as it was and its stage as the field merge left
\* it: interview_started is recorded only for a session that was started.
C37_StartedOnlyOnSuccess ==
    (HandedOff /\ ~StartLeftSession) =>
        /\ LastRow.metadata = MetadataBefore
        /\ LastRow.stage = StageAfterMerge

---------------------------------------------------------------------------
(* Sessions of different urls on one controller                            *)

SessionLogs == {"questions_answered", "code_snippets_analyzed"}

\* the entries the controller held before the last call that were recorded
\* in the session then current: those logged since that session started
RecordedInPreviousSession(k) ==
    LET before == last.agent.interview_state
    IN  IF before.interview_url = None THEN {}
        ELSE {before[k][i] : i \in {j \in 1..Len(before[k]) :
                                      before[k][j].timestamp >= before.started_at}}

StoredLog(url, k) ==
    LET state == get_interview_state(interview_sessions, url)
    IN  IF k \in DOMAIN state THEN {state[k][i] : i \in 1..Len(state[k])} ELSE {}

\* C38: when start_interview is called for a url other than that of the
\* current session, no entry recorded in the current session is in the
\* state stored for the new url.
C38_SessionsIsolatedByUrl ==
    (/\ last.op = "start_interview"
     /\ last.agent.interview_state.interview_url \notin {None, last.arg.interview_url}) =>
        \A k \in SessionLogs :
            RecordedInPreviousSession(k)
                \cap StoredLog(last.arg.interview_url, k) = {}

---------------------------------------------------------------------------
(* A start_interview that fails                                            *)

BrowserFailed ==
    /\ last.op = "start_interview"
    /\ last.arg.browser \in {"no_browser", "no_page"}

\* C39: a start_interview on an idle controller that fails because the
\* browser cannot be started or the navigation fails reports a failure,
\* leaves the in-memory session state and the store as they were, the
\* controller inactive and no browser session open; and whenever
\* get_interview_status reports active, current_step is "started".
C39_FailedStartLeavesNothing ==
    /\ (BrowserFailed /\ ~last.agent.is_active) =>
           /\ ~last.success
           /\ agent.interview_state = last.agent.interview_state
           /\ interview_sessions = last.before
           /\ ~agent.is_active
           /\ \A i \in 1..Len(browsers) : browsers[i] # "open"
    /\ get_interview_status(agent).active =>
           get_interview_status(agent).current_step = "started"

---------------------------------------------------------------------------
(* Escalation under orchestration                                          *)

WasEscalated ==
    /\ ItemHandled
    /\ last.before # NoRow
    /\ last.before.requires_escalation = TRUE

=============================================================================
